---- MODULE Spec2Model ----
(***************************************************************************)
(* Model of the horizontal-alignment core (core/alignment.py): the element *)
(* library (LineElement, ArcElement, ClothoidElement) and the Alignment    *)
(* container.  Floats are modelled in fixed point: a coordinate, a radius  *)
(* or a length v is the integer v * Scale, an angle a is the integer       *)
(* a * AngScale (milliradians).                                            *)
(***************************************************************************)
EXTENDS Integers, Sequences, FiniteSets, TLC

\* ------------------------------------------------------------------------
\* Fixed-point arithmetic
\* ------------------------------------------------------------------------
Scale == 1000
AngScale == 1000
PI == 3142
TwoPI == 2 * PI
HalfPI == PI \div 2

Abs(x) == IF x < 0 THEN -x ELSE x
Max(a, b) == IF a >= b THEN a ELSE b
Min(a, b) == IF a <= b THEN a ELSE b

\* a / b rounded to the nearest integer (b > 0)
RDiv(a, b) == (2 * a + b) \div (2 * b)

\* smallest n with n * b >= a (a >= 0, b > 0): math.ceil(a / b)
CeilDiv(a, b) == (a + b - 1) \div b

RECURSIVE SqrtSearch(_, _, _)
SqrtSearch(n, lo, hi) ==
    IF lo >= hi THEN lo
    ELSE LET mid == (lo + hi + 1) \div 2
         IN IF mid * mid <= n THEN SqrtSearch(n, mid, hi)
                              ELSE SqrtSearch(n, lo, mid - 1)

\* math.sqrt on a value scaled by Scale * Scale (result scaled by Scale)
ISqrt(n) == SqrtSearch(n, 0, 46340)

\* math.hypot(a[0] - b[0], a[1] - b[1])
dist(a, b) == ISqrt((a[1] - b[1]) * (a[1] - b[1]) + (a[2] - b[2]) * (a[2] - b[2]))

\* math.fmod: the result has the sign of the dividend
Fmod(a, m) == IF a >= 0 THEN a % m ELSE -((-a) % m)

normalize_angle(a) ==
    LET f == Fmod(a, TwoPI)
    IN IF f <= -PI THEN f + TwoPI
       ELSE IF f > PI THEN f - TwoPI
       ELSE f

\* atan(z / AngScale) for 0 <= z <= AngScale, in milliradians
AtanUnit(z) == (z * (785 + (273 * (AngScale - z)) \div AngScale)) \div AngScale

\* math.atan2(y, x), in milliradians, in (-PI, PI]
Atan2(y, x) ==
    LET ax == Abs(x)
        ay == Abs(y)
        base == IF ax = 0 /\ ay = 0 THEN 0
                ELSE IF ax >= ay THEN AtanUnit((ay * AngScale) \div ax)
                ELSE HalfPI - AtanUnit((ax * AngScale) \div ay)
    IN IF x >= 0 /\ y >= 0 THEN base
       ELSE IF x < 0 /\ y >= 0 THEN PI - base
       ELSE IF x < 0 THEN base - PI
       ELSE -base

\* math.sin(x) for 0 <= x <= PI (milliradians), scaled by Scale
SinHalf(x) ==
    LET p == x * (PI - x)
        d == 5 * PI * PI - 4 * p
    IN RDiv(16 * p, d \div Scale)

\* math.sin(a), scaled by Scale, for any angle a in milliradians
Sin(a) ==
    LET r == a % TwoPI
    IN IF r <= PI THEN SinHalf(r) ELSE -SinHalf(r - PI)

\* math.cos(a), scaled by Scale
Cos(a) == Sin(a + HalfPI)

\* math.sin(math.pi * i / n), scaled by Scale, for 0 <= i <= n
SinPi(i, n) == RDiv(Scale * 16 * i * (n - i), 5 * n * n - 4 * i * (n - i))

\* ------------------------------------------------------------------------
\* Exceptions
\* ------------------------------------------------------------------------
Raise(kind) == [exc |-> kind]
IsExc(r) == "exc" \in DOMAIN r

\* float(A[0]), float(A[1]) on a coordinate list: IndexError on a short list
PointOk(p) == Len(p) >= 2
Pt2(p) == <<p[1], p[2]>>

\* ------------------------------------------------------------------------
\* LineElement
\* ------------------------------------------------------------------------
LineElement(A, B) ==
    IF ~PointOk(A) \/ ~PointOk(B) THEN Raise("IndexError")
    ELSE [type |-> "line", A |-> Pt2(A), B |-> Pt2(B),
          length |-> dist(Pt2(A), Pt2(B))]

\* ------------------------------------------------------------------------
\* ArcElement
\* ------------------------------------------------------------------------
ArcSide(side) == IF side \notin {"left", "right"} THEN "left" ELSE side

\* _compute_center_angles: the exception it raises, or center/angles/ccw
ArcComputeCenterAngles(A, B, radius, side) ==
    LET dx == B[1] - A[1]
        dy == B[2] - A[2]
        chord == ISqrt(dx * dx + dy * dy)
    IN IF chord = 0 THEN Raise("ValueError")
       ELSE IF 2 * Abs(radius) < chord THEN Raise("ValueError")
       ELSE
         LET mx == (A[1] + B[1]) \div 2
             my == (A[2] + B[2]) \div 2
             half == chord \div 2
             h == ISqrt(Max(0, radius * radius - half * half))
             ux == RDiv((-dy) * Scale, chord)
             uy == RDiv(dx * Scale, chord)
             cx == IF side = "left" THEN mx + RDiv(ux * h, Scale)
                                    ELSE mx - RDiv(ux * h, Scale)
             cy == IF side = "left" THEN my + RDiv(uy * h, Scale)
                                    ELSE my - RDiv(uy * h, Scale)
             a1 == Atan2(A[2] - cy, A[1] - cx)
             a2 == Atan2(B[2] - cy, B[1] - cx)
             delta == normalize_angle(a2 - a1)
             ccw0 == delta > 0
             ccw == IF Abs(delta) > PI THEN ~ccw0 ELSE ccw0
         IN [center |-> <<cx, cy>>, start_angle |-> a1, end_angle |-> a2,
             ccw |-> ccw]

\* the signed angle ang that __init__ multiplies by the radius
ArcAngle(start_angle, end_angle, ccw) ==
    LET ang0 == normalize_angle(end_angle - start_angle)
        ang1 == IF ccw /\ ang0 < 0 THEN ang0 + TwoPI ELSE ang0
    IN IF ~ccw /\ ang1 > 0 THEN ang1 - TwoPI ELSE ang1

ArcLength(radius, start_angle, end_angle, ccw) ==
    RDiv(Abs(radius * ArcAngle(start_angle, end_angle, ccw)), AngScale)

ArcElement(A, B, radius, side) ==
    IF ~PointOk(A) \/ ~PointOk(B) THEN Raise("IndexError")
    ELSE LET s == ArcSide(side)
             g == ArcComputeCenterAngles(Pt2(A), Pt2(B), radius, s)
         IN IF IsExc(g) THEN g
            ELSE [type |-> "arc", A |-> Pt2(A), B |-> Pt2(B),
                  radius |-> radius, side |-> s, center |-> g.center,
                  start_angle |-> g.start_angle, end_angle |-> g.end_angle,
                  ccw |-> g.ccw,
                  length |-> ArcLength(radius, g.start_angle, g.end_angle, g.ccw)]

\* ------------------------------------------------------------------------
\* ClothoidElement
\* ------------------------------------------------------------------------
ClothoidSide(side) == IF side \in {"left", "right"} THEN side ELSE "left"

\* _build_poly: the chord P0 -> P1 displaced sideways by sin(pi * t)
ClothoidBuildPoly(P0, P1, radius, spiral_length, samples, side) ==
    LET L == dist(P0, P1)
    IN IF L <= 0 THEN <<P0>>
       ELSE
         LET ux0 == RDiv(-(P1[2] - P0[2]) * Scale, L)
             uy0 == RDiv((P1[1] - P0[1]) * Scale, L)
             ux == IF side = "right" THEN -ux0 ELSE ux0
             uy == IF side = "right" THEN -uy0 ELSE uy0
             q1 == RDiv(spiral_length * Scale, Max(Scale, L))
             q2 == RDiv(Scale * Scale, Max(Scale, Abs(radius)))
             offset_scale == RDiv(q1 * q2, 2 * Scale)
             amp == RDiv(L * offset_scale, Scale)
             off(i) == RDiv(SinPi(i, samples) * amp, Scale)
         IN [k \in 1..(samples + 1) |->
               LET i == k - 1
               IN <<P0[1] + RDiv((P1[1] - P0[1]) * i, samples) + RDiv(ux * off(i), Scale),
                    P0[2] + RDiv((P1[2] - P0[2]) * i, samples) + RDiv(uy * off(i), Scale)>>]

RECURSIVE PolyLength(_, _)
PolyLength(poly, i) ==
    IF i >= Len(poly) THEN 0
    ELSE dist(poly[i], poly[i + 1]) + PolyLength(poly, i + 1)

ClothoidElement(P0, P1, radius, spiral_length, samples, side) ==
    IF ~PointOk(P0) \/ ~PointOk(P1) THEN Raise("IndexError")
    ELSE LET sl == Max(0, spiral_length)
             n == Max(4, samples)
             s == ClothoidSide(side)
             poly == ClothoidBuildPoly(Pt2(P0), Pt2(P1), radius, sl, n, s)
         IN [type |-> "clothoid_poly", P0 |-> Pt2(P0), P1 |-> Pt2(P1),
             radius |-> radius, spiral_length |-> sl, samples |-> n,
             side |-> s, poly |-> poly, length |-> PolyLength(poly, 1)]

\* ------------------------------------------------------------------------
\* sample(step)
\* ------------------------------------------------------------------------
\* mutant of SampleCount: the interval count rounded down instead of up
SampleCountFloor(length, step) == Max(1, length \div step)

\* number of intervals: max(1, int(math.ceil(length / step)))
SampleCount(length, step) == Max(1, CeilDiv(length, step))

\* mutant of LineSample: range(n) instead of range(n + 1), the end point lost
LineSampleDropLast(e, step) ==
    IF e.length <= 0 \/ step <= 0
    THEN (IF e.length > 0 THEN <<e.A, e.B>> ELSE <<e.A>>)
    ELSE LET n == SampleCount(e.length, step)
         IN [k \in 1..n |->
               <<e.A[1] + RDiv((e.B[1] - e.A[1]) * (k - 1), n),
                 e.A[2] + RDiv((e.B[2] - e.A[2]) * (k - 1), n)>>]

LineSample(e, step) ==
    IF e.length <= 0 \/ step <= 0
    THEN (IF e.length > 0 THEN <<e.A, e.B>> ELSE <<e.A>>)
    ELSE LET n == SampleCount(e.length, step)
         IN [k \in 1..(n + 1) |->
               <<e.A[1] + RDiv((e.B[1] - e.A[1]) * (k - 1), n),
                 e.A[2] + RDiv((e.B[2] - e.A[2]) * (k - 1), n)>>]

\* the positive span that sample walks from start_angle
ArcSampleSpan(e) ==
    LET d == IF e.ccw THEN normalize_angle(e.end_angle - e.start_angle)
                      ELSE normalize_angle(e.start_angle - e.end_angle)
    IN IF d <= 0 THEN d + TwoPI ELSE d

ArcSample(e, step) ==
    IF e.length <= 0 \/ step <= 0 THEN <<e.A, e.B>>
    ELSE LET n == SampleCount(e.length, step)
             span == ArcSampleSpan(e)
             angAt(i) == IF e.ccw THEN e.start_angle + RDiv(span * i, n)
                                  ELSE e.start_angle - RDiv(span * i, n)
         IN [k \in 1..(n + 1) |->
               <<e.center[1] + RDiv(e.radius * Cos(angAt(k - 1)), Scale),
                 e.center[2] + RDiv(e.radius * Sin(angAt(k - 1)), Scale)>>]

\* a call that never returns
Diverges == [diverges |-> TRUE]

\* floats are spaced more widely the larger they are; the model keeps two
\* magnitudes: a coordinate below CoarseFrom has the spacing of the model's
\* unit, one from CoarseFrom on has the spacing CoarseUlp
CoarseFrom == 1000 * Scale
CoarseUlp == 2 * Scale

\* the float nearest to v
FloatRound(v) == IF Abs(v) >= CoarseFrom THEN RDiv(v, CoarseUlp) * CoarseUlp ELSE v

\* the inner while loop of ClothoidElement.sample on one polyline segment;
\* loops is TRUE when an iteration leaves prev, seg and acc as they were,
\* so that the loop never ends
RECURSIVE ClothoidSegment(_, _, _, _, _, _)
ClothoidSegment(prev, cur, seg, acc, out, step) ==
    IF acc + seg >= step
    THEN LET need == step - acc
             p == <<FloatRound(prev[1] + RDiv((cur[1] - prev[1]) * need, seg)),
                    FloatRound(prev[2] + RDiv((cur[2] - prev[2]) * need, seg))>>
         IN IF p = prev /\ acc = 0 THEN [acc |-> acc, out |-> out, loops |-> TRUE]
            ELSE ClothoidSegment(p, cur, dist(p, cur), 0, Append(out, p), step)
    ELSE [acc |-> acc + seg, out |-> out, loops |-> FALSE]

\* the for loop of ClothoidElement.sample over the polyline vertices
RECURSIVE ClothoidWalk(_, _, _, _, _, _)
ClothoidWalk(poly, i, prev, acc, out, step) ==
    IF i > Len(poly) THEN [out |-> out, loops |-> FALSE]
    ELSE LET cur == poly[i]
             seg == dist(prev, cur)
         IN IF seg <= 0 THEN ClothoidWalk(poly, i + 1, cur, acc, out, step)
            ELSE LET r == ClothoidSegment(prev, cur, seg, acc, out, step)
                 IN IF r.loops THEN [out |-> r.out, loops |-> TRUE]
                    ELSE ClothoidWalk(poly, i + 1, cur, r.acc, r.out, step)

\* the while loop of sample(step) never ends on this element
SampleLoops(e, step) ==
    /\ e.type = "clothoid_poly"
    /\ Len(e.poly) > 0 /\ step > 0
    /\ ClothoidWalk(e.poly, 2, e.poly[1], 0, <<e.poly[1]>>, step).loops

ClothoidSampleNoFinalVertex(e, step) ==
    IF Len(e.poly) = 0 THEN <<e.P0>>
    ELSE IF step <= 0 THEN e.poly
    ELSE LET w == ClothoidWalk(e.poly, 2, e.poly[1], 0, <<e.poly[1]>>, step)
         IN IF w.loops THEN Diverges ELSE w.out

ClothoidSample(e, step) ==
    IF Len(e.poly) = 0 THEN <<e.P0>>
    ELSE IF step <= 0 THEN e.poly
    ELSE LET w == ClothoidWalk(e.poly, 2, e.poly[1], 0, <<e.poly[1]>>, step)
         IN IF w.loops THEN Diverges
            ELSE IF w.out[Len(w.out)] # e.poly[Len(e.poly)]
            THEN Append(w.out, e.poly[Len(e.poly)])
            ELSE w.out

Sample(e, step) ==
    IF e.type = "line" THEN LineSample(e, step)
    ELSE IF e.type = "arc" THEN ArcSample(e, step)
    ELSE ClothoidSample(e, step)

\* ------------------------------------------------------------------------
\* to_dict / from_dict of the elements
\* ------------------------------------------------------------------------
\* dict.get(key, default)
Get(d, key, default) == IF key \in DOMAIN d THEN d[key] ELSE default

LineToDict(e) == [type |-> "line", A |-> e.A, B |-> e.B, length |-> e.length]

LineFromDict(d) ==
    IF "A" \notin DOMAIN d \/ "B" \notin DOMAIN d THEN Raise("KeyError")
    ELSE LineElement(d.A, d.B)

ArcToDict(e) ==
    [type |-> "arc", A |-> e.A, B |-> e.B, radius |-> e.radius,
     side |-> e.side, center |-> e.center, start_angle |-> e.start_angle,
     end_angle |-> e.end_angle, ccw |-> e.ccw, length |-> e.length]

ArcFromDict(d) ==
    IF "A" \notin DOMAIN d \/ "B" \notin DOMAIN d THEN Raise("KeyError")
    ELSE ArcElement(d.A, d.B, Get(d, "radius", 0), Get(d, "side", "left"))

ClothoidToDict(e) ==
    [type |-> "clothoid_poly", P0 |-> e.P0, P1 |-> e.P1, radius |-> e.radius,
     spiral_length |-> e.spiral_length, samples |-> e.samples,
     side |-> e.side]

\* mutant of ClothoidFromDict: the side key is not read back
ClothoidFromDictNoSide(d) ==
    IF "P0" \notin DOMAIN d \/ "P1" \notin DOMAIN d THEN Raise("KeyError")
    ELSE ClothoidElement(d.P0, d.P1, Get(d, "radius", 0),
                         Get(d, "spiral_length", 10 * Scale),
                         Get(d, "samples", 64), "left")

ClothoidFromDict(d) ==
    IF "P0" \notin DOMAIN d \/ "P1" \notin DOMAIN d THEN Raise("KeyError")
    ELSE ClothoidElement(d.P0, d.P1, Get(d, "radius", 0),
                         Get(d, "spiral_length", 10 * Scale),
                         Get(d, "samples", 64), Get(d, "side", "left"))

ToDict(e) ==
    IF e.type = "line" THEN LineToDict(e)
    ELSE IF e.type = "arc" THEN ArcToDict(e)
    ELSE ClothoidToDict(e)

\* cls.from_dict(d) for the class named cls
FromDictOf(cls, d) ==
    IF cls = "line" THEN LineFromDict(d)
    ELSE IF cls = "arc" THEN ArcFromDict(d)
    ELSE ClothoidFromDict(d)

\* ------------------------------------------------------------------------
\* Alignment
\* ------------------------------------------------------------------------
VARIABLES
    elements,      \* Alignment.elements
    total_length,  \* Alignment.total_length (the cache)
    elem,          \* a stand-alone element under construction or test
    call,          \* the last call: its name, its arguments, elements before it
    ret,           \* what the last call returned, or the exception it raised
    shapes,            \* CanvasWidget.shapes
    triangles,         \* CanvasWidget.triangles: manual index triples
    cached_triangles,  \* CanvasWidget._cached_triangles: <<>> is None
    last_pts_hash,     \* CanvasWidget._last_pts_hash: <<>> is None
    has_delaunay,      \* _HAS_DELAUNAY and _HAS_NUMPY of the installation
    add_triangle_mode,       \* CanvasWidget._add_triangle_mode
    add_triangle_clicks,     \* CanvasWidget._add_triangle_clicks
    delete_triangle_mode,    \* CanvasWidget._delete_triangle_mode
    selection_mode,          \* CanvasWidget.selection_mode
    selected_mandatory_ids,  \* CanvasWidget.selected_mandatory_ids
    panning                  \* CanvasWidget._panning

\* the state of the canvas
\* the interaction state of the canvas
modes == <<add_triangle_mode, add_triangle_clicks, delete_triangle_mode>>
selection == <<selection_mode, selected_mandatory_ids, panning>>

surface == <<shapes, triangles, cached_triangles, last_pts_hash, has_delaunay, modes, selection>>

vars == <<elements, total_length, elem, call, ret, surface>>

RECURSIVE SumLength(_, _)
SumLength(els, i) ==
    IF i > Len(els) THEN 0 ELSE els[i].length + SumLength(els, i + 1)

\* mutant of RebuildCache: the first element left out of the sum
RebuildCacheSkipFirst(els) == SumLength(els, 2)

\* _rebuild_cache: sum(el.length for el in self.elements)
RebuildCache(els) == SumLength(els, 1)

\* list.insert(i, x), i counted from 0: a negative i counts from the end,
\* and the position is clamped to [0, len]
ListInsert(s, i, x) ==
    LET j == IF i < 0 THEN Max(0, Len(s) + i) ELSE Min(i, Len(s))
    IN SubSeq(s, 1, j) \o <<x>> \o SubSeq(s, j + 1, Len(s))

\* del s[i] / s.pop(i), i counted from 0: a negative i counts from the end;
\* a position outside the list raises IndexError and deletes nothing
ListDelete(s, i) ==
    LET j == IF i < 0 THEN Len(s) + i ELSE i
    IN IF j < 0 \/ j >= Len(s) THEN s
       ELSE SubSeq(s, 1, j) \o SubSeq(s, j + 2, Len(s))

\* mutant of InsertIndex: a negative index handed to list.insert unchanged
InsertIndexRaw(els, index) == index

\* the index insert_element hands to list.insert
InsertIndex(els, index) ==
    IF index < 0 THEN Max(0, Len(els) + 1 + index) ELSE index

InsertElementResult(els, index, el) == ListInsert(els, InsertIndex(els, index), el)

\* mutant of RemoveElementGuard: the lower bound is not checked
RemoveElementGuardNoLower(els, index) == index < Len(els)

RemoveElementGuard(els, index) == 0 <= index /\ index < Len(els)

MoveElementGuard(els, from_idx, to_idx) ==
    /\ 0 <= from_idx /\ from_idx < Len(els)
    /\ 0 <= to_idx /\ to_idx <= Len(els)

MoveElementResult(els, from_idx, to_idx) ==
    ListInsert(ListDelete(els, from_idx), to_idx, els[from_idx + 1])

\* ---- Alignment.from_dict ------------------------------------------------
\* an entry of the elements list that is not a dict has no .get
IsDict(ed) == "nondict" \notin DOMAIN ed

\* str.lower() on the type names that occur
Lower(t) ==
    IF t = "LINE" THEN "line" ELSE IF t = "Arc" THEN "arc" ELSE t

\* the body of the try block for one entry: the element built, the exception
\* raised, or "continue" for an unknown type
LoadEntry(ed) ==
    IF ~IsDict(ed) THEN Raise("AttributeError")
    ELSE LET t == Lower(Get(ed, "type", ""))
         IN IF t = "line" THEN LineFromDict(ed)
            ELSE IF t = "arc" THEN ArcFromDict(ed)
            ELSE IF t \in {"clothoid_poly", "clothoid"} THEN ClothoidFromDict(ed)
            ELSE [skip |-> TRUE]

\* mutant of LoadElements: except: break, the first bad entry ends the load
RECURSIVE LoadElementsAbort(_, _, _)
LoadElementsAbort(el_list, i, acc) ==
    IF i > Len(el_list) THEN acc
    ELSE LET r == LoadEntry(el_list[i])
         IN IF "skip" \in DOMAIN r THEN LoadElementsAbort(el_list, i + 1, acc)
            ELSE IF IsExc(r) THEN acc
            ELSE LoadElementsAbort(el_list, i + 1, Append(acc, r))

\* the for loop of Alignment.from_dict with its except: continue
RECURSIVE LoadElements(_, _, _)
LoadElements(el_list, i, acc) ==
    IF i > Len(el_list) THEN acc
    ELSE LET r == LoadEntry(el_list[i])
         IN IF "skip" \in DOMAIN r THEN LoadElements(el_list, i + 1, acc)
            ELSE IF IsExc(r) THEN LoadElements(el_list, i + 1, acc)
            ELSE LoadElements(el_list, i + 1, Append(acc, r))

AlignmentFromDict(el_list) == LoadElements(el_list, 1, <<>>)

\* Alignment.sample: pts after the loop has handled elements i..Len(els)
RECURSIVE SampleFrom(_, _, _, _)
SampleFrom(els, i, pts, step) ==
    IF i > Len(els) THEN pts
    ELSE LET spts == Sample(els[i], step)
         IN IF spts = <<>> THEN SampleFrom(els, i + 1, pts, step)
            ELSE IF pts # <<>> /\ pts[Len(pts)] = spts[1]
                 THEN SampleFrom(els, i + 1, pts \o Tail(spts), step)
                 ELSE SampleFrom(els, i + 1, pts \o spts, step)

AlignmentSampleKeepAll(els, step) ==
    LET RECURSIVE all(_)
        all(i) == IF i > Len(els) THEN <<>> ELSE Sample(els[i], step) \o all(i + 1)
    IN all(1)

AlignmentSample(els, step) == SampleFrom(els, 1, <<>>, step)

\* flatten_vertices, first loop: the endpoints of the elements in order
RECURSIVE EndPoints(_, _)
EndPoints(els, i) ==
    IF i > Len(els) THEN <<>>
    ELSE LET e == els[i]
             own == IF e.type \in {"line", "arc"} THEN <<e.A, e.B>>
                    ELSE IF e.poly # <<>> THEN <<e.poly[1], e.poly[Len(e.poly)]>>
                    ELSE <<>>
         IN own \o EndPoints(els, i + 1)

\* round(v, 9): coordinates of the model are multiples of 1e-3, which
\* rounding to nine decimals leaves unchanged
Round9(v) == v

VertexKey(p) == <<Round9(p[1]), Round9(p[2])>>

\* flatten_vertices, second loop: out and seen after pts[i..]
RECURSIVE Dedupe(_, _, _, _)
Dedupe(pts, i, out, seen) ==
    IF i > Len(pts) THEN out
    ELSE IF VertexKey(pts[i]) \notin seen
         THEN Dedupe(pts, i + 1, Append(out, pts[i]), seen \cup {VertexKey(pts[i])})
         ELSE Dedupe(pts, i + 1, out, seen)

FlattenVerticesNoDedupe(els) == EndPoints(els, 1)

flatten_vertices(els) == Dedupe(EndPoints(els, 1), 1, <<>>, {})

\* ------------------------------------------------------------------------
\* Bounds and inputs
\* ------------------------------------------------------------------------
MaxElems == 3      \* add/insert only while the alignment is shorter
MaxEntries == 3    \* longest elements list handed to Alignment.from_dict

P(x, y) == <<x * Scale, y * Scale>>

\* ---- inputs of the Alignment operations ----
\* (A, B)
LineInputs == { <<P(0, 0), P(10, 0)>>, <<P(0, 0), P(0, 0)>>, <<P(0, 0), <<5 * Scale>>>> }

\* (A, B, radius, side): one feasible, one with the radius too small
ArcInputs ==
    { <<P(0, 0), P(10, 0), 13 * Scale, "right">>,
      <<P(0, 0), P(10, 0), 3 * Scale, "left">> }

\* (P0, P1, radius, spiral_length, samples, side)
ClothoidInputs ==
    { <<P(0, 0), P(10, 0), 20 * Scale, 15 * Scale, 4, "right">>,
      <<<<>>, P(10, 0), 20 * Scale, 15 * Scale, 4, "right">> }

\* elements handed to insert_element
InsertInputs ==
    { LineElement(P(0, 0), P(10, 0)),
      ArcElement(P(0, 0), P(10, 0), 13 * Scale, "right") }

LineDict == LineToDict(LineElement(P(0, 0), P(10, 0)))
ArcDict == ArcToDict(ArcElement(P(0, 0), P(10, 0), 13 * Scale, "right"))
ClothoidDict ==
    ClothoidToDict(ClothoidElement(P(0, 0), P(10, 0), 20 * Scale, 15 * Scale, 4, "right"))

\* d without the key k
Without(d, k) == [f \in DOMAIN d \ {k} |-> d[f]]

\* entries of the elements list handed to Alignment.from_dict
EntryPool ==
    { LineDict,
      ArcDict,
      [ClothoidDict EXCEPT !.type = "clothoid"],
      [LineDict EXCEPT !.type = "LINE", !.B = P(0, 0)],
      [ArcDict EXCEPT !.radius = 3 * Scale],
      [LineDict EXCEPT !.type = "spline"],
      Without(LineDict, "B"),
      [nondict |-> TRUE] }

RECURSIVE SeqsUpTo(_, _)
SeqsUpTo(S, n) ==
    IF n = 0 THEN { <<>> }
    ELSE LET shorter == SeqsUpTo(S, n - 1)
         IN shorter \cup { Append(q, x) : q \in shorter, x \in S }

\* ---- inputs of the element constructors, sample and from_dict ----
\* (A, B): axis-parallel, oblique, zero length
LineCtorInputs ==
    { <<P(0, 0), P(10, 0)>>, <<P(0, 0), P(7, 3)>>, <<P(3, 4), P(0, 0)>>,
      <<P(0, 0), P(0, 0)>> }

\* (A, B, radius, side): tangent, ordinary, too small, zero chord, zero and
\* negative radius, unknown side
ArcCtorInputs ==
    { <<P(0, 0), P(10, 0), 5 * Scale, "left">>,
      <<P(0, 0), P(10, 0), 13 * Scale, "right">>,
      <<P(0, 0), P(10, 0), 3 * Scale, "left">>,
      <<P(0, 0), P(0, 0), 5 * Scale, "left">>,
      <<P(0, 0), P(10, 0), 0, "left">>,
      <<P(0, 0), P(0, 0), 0, "left">>,
      <<P(0, 0), P(10, 0), -13 * Scale, "left">>,
      <<P(0, 0), P(10, 0), -3 * Scale, "right">>,
      <<P(0, 0), P(0, 0), -5 * Scale, "right">>,
      <<P(0, 8), P(6, 0), 5 * Scale, "right">>,
      <<P(10, 0), P(0, 0), 13 * Scale, "up">> }

\* (P0, P1, radius, spiral_length, samples, side)
ClothoidCtorInputs ==
    { <<P(0, 0), P(10, 0), 20 * Scale, 15 * Scale, 4, "right">>,
      <<P(0, 0), P(6, 8), 2 * Scale, -5 * Scale, 2, "up">>,
      <<P(0, 0), P(10, 0), 0, 10 * Scale, 6, "left">>,
      <<P(0, 0), P(0, 0), 20 * Scale, 15 * Scale, 4, "left">>,
      <<P(2000, 0), P(2008, 0), 20 * Scale, 0, 4, "left">> }

\* sample steps: negative, zero, below and above the element lengths
Steps == { -Scale, 0, Scale \div 2, 3 * Scale, 5 * Scale, 7 * Scale, 25 * Scale }

\* (class, dict) handed to an element's own from_dict
FromDictInputs ==
    { <<"line", LineDict>>,
      <<"line", Without(LineDict, "A")>>,
      <<"line", Without(LineDict, "B")>>,
      <<"arc", ArcDict>>,
      <<"arc", Without(ArcDict, "A")>>,
      <<"arc", Without(ArcDict, "B")>>,
      <<"arc", Without(ArcDict, "radius")>>,
      <<"arc", Without(ArcDict, "side")>>,
      <<"clothoid_poly", ClothoidDict>>,
      <<"clothoid_poly", Without(ClothoidDict, "P0")>>,
      <<"clothoid_poly", Without(ClothoidDict, "P1")>>,
      <<"clothoid_poly", Without(ClothoidDict, "radius")>>,
      <<"clothoid_poly", Without(ClothoidDict, "spiral_length")>>,
      <<"clothoid_poly", Without(ClothoidDict, "samples")>>,
      <<"clothoid_poly", Without(ClothoidDict, "side")>> }

\* ------------------------------------------------------------------------
\* Operations of the Alignment
\* ------------------------------------------------------------------------
\* no element constructed yet
\* steps of Alignment.sample
AlignSteps == {0, 3 * Scale, 7 * Scale}

NoElement == [type |-> "none"]

\* Alignment(): no elements; no stand-alone element, no call yet
InitAlignment ==
    /\ elements = <<>>
    /\ total_length = RebuildCache(<<>>)
    /\ elem = NoElement
    /\ call = [op |-> "init"]
    /\ ret = "None"

\* CanvasWidget(): no shapes, no manual triangles, nothing cached
InitModes ==
    /\ add_triangle_mode = FALSE
    /\ add_triangle_clicks = <<>>
    /\ delete_triangle_mode = FALSE
    /\ selection_mode = "none"
    /\ selected_mandatory_ids = {}
    /\ panning = FALSE

InitCanvas ==
    /\ shapes = <<>>
    /\ triangles = <<>>
    /\ cached_triangles = <<>>
    /\ last_pts_hash = <<>>
    /\ InitModes

Init ==
    /\ InitAlignment
    /\ InitCanvas
    /\ has_delaunay = TRUE

AppendOrClear(el) ==
    IF IsExc(el)
    THEN elements' = <<>> /\ total_length' = 0
    ELSE /\ elements' = Append(elements, el)
         /\ total_length' = RebuildCache(elements')

\* append a constructed element, or leave the alignment alone when the
\* constructor raised
AppendOrRaise(el) ==
    IF IsExc(el)
    THEN UNCHANGED <<elements, total_length>>
    ELSE /\ elements' = Append(elements, el)
         /\ total_length' = RebuildCache(elements')

AddLine ==
    \E in \in LineInputs :
        /\ Len(elements) < MaxElems
        /\ LET el == LineElement(in[1], in[2])
           IN /\ AppendOrRaise(el)
              /\ ret' = el
        /\ call' = [op |-> "add_line", A |-> in[1], B |-> in[2], pre |-> elements]
        /\ UNCHANGED <<elem, surface>>

AddArcByPointsRadius ==
    \E in \in ArcInputs :
        /\ Len(elements) < MaxElems
        /\ LET el == ArcElement(in[1], in[2], in[3], in[4])
           IN /\ AppendOrRaise(el)
              /\ ret' = el
        /\ call' = [op |-> "add_arc", A |-> in[1], B |-> in[2], radius |-> in[3],
                    side |-> in[4], pre |-> elements]
        /\ UNCHANGED <<elem, surface>>

AddClothoid ==
    \E in \in ClothoidInputs :
        /\ Len(elements) < MaxElems
        /\ LET el == ClothoidElement(in[1], in[2], in[3], in[4], in[5], in[6])
           IN /\ AppendOrRaise(el)
              /\ ret' = el
        /\ call' = [op |-> "add_clothoid", pre |-> elements]
        /\ UNCHANGED <<elem, surface>>

InsertElement ==
    \E index \in (-(Len(elements) + 2))..(Len(elements) + 2), el \in InsertInputs :
        /\ Len(elements) < MaxElems
        /\ elements' = InsertElementResult(elements, index, el)
        /\ total_length' = RebuildCache(elements')
        /\ call' = [op |-> "insert_element", index |-> index, el |-> el,
                    pre |-> elements]
        /\ ret' = "None"
        /\ UNCHANGED <<elem, surface>>

RemoveElement ==
    \E index \in (-2)..(Len(elements) + 1) :
        /\ IF RemoveElementGuard(elements, index)
           THEN /\ elements' = ListDelete(elements, index)
                /\ total_length' = RebuildCache(elements')
           ELSE UNCHANGED <<elements, total_length>>
        /\ call' = [op |-> "remove_element", index |-> index, pre |-> elements]
        /\ ret' = "None"
        /\ UNCHANGED <<elem, surface>>

MoveElement ==
    \E from_idx \in (-1)..Len(elements), to_idx \in (-2)..(Len(elements) + 2) :
        /\ IF MoveElementGuard(elements, from_idx, to_idx)
           THEN /\ elements' = MoveElementResult(elements, from_idx, to_idx)
                /\ total_length' = RebuildCache(elements')
           ELSE UNCHANGED <<elements, total_length>>
        /\ call' = [op |-> "move_element", from_idx |-> from_idx,
                    to_idx |-> to_idx, pre |-> elements]
        /\ ret' = "None"
        /\ UNCHANGED <<elem, surface>>

Clear ==
    /\ elements' = <<>>
    /\ total_length' = RebuildCache(elements')
    /\ call' = [op |-> "clear"]
    /\ ret' = "None"
    /\ UNCHANGED <<elem, surface>>

\* aln = Alignment.from_dict(d): a classmethod, it fills the alignment it has
\* just constructed
FromDict ==
    \E el_list \in SeqsUpTo(EntryPool, MaxEntries) :
        /\ call.op = "init"
        /\ elements' = AlignmentFromDict(el_list)
        /\ total_length' = RebuildCache(elements')
        /\ call' = [op |-> "from_dict", el_list |-> el_list]
        /\ ret' = "None"
        /\ UNCHANGED <<elem, surface>>

\* aln.sample(step)
SampleAlignment ==
    \E step \in AlignSteps :
        /\ ret' = AlignmentSample(elements, step)
        /\ call' = [op |-> "Alignment.sample", step |-> step]
        /\ UNCHANGED <<elements, total_length, elem, surface>>

\* aln.flatten_vertices()
FlattenVertices ==
    /\ ret' = flatten_vertices(elements)
    /\ call' = [op |-> "flatten_vertices"]
    /\ UNCHANGED <<elements, total_length, elem, surface>>

Next ==
    \/ AddLine
    \/ AddArcByPointsRadius
    \/ AddClothoid
    \/ InsertElement
    \/ RemoveElement
    \/ MoveElement
    \/ Clear
    \/ FromDict
    \/ SampleAlignment
    \/ FlattenVertices

Spec == Init /\ [][Next]_vars

\* ------------------------------------------------------------------------
\* Operations of the element library on a stand-alone element
\* ------------------------------------------------------------------------
\* elem = cls(...): elem keeps its old value when the constructor raises
Construct(el) ==
    /\ elem' = IF IsExc(el) THEN elem ELSE el
    /\ ret' = el
    /\ UNCHANGED <<elements, total_length, surface>>

NewLine ==
    \E in \in LineCtorInputs :
        /\ Construct(LineElement(in[1], in[2]))
        /\ call' = [op |-> "LineElement", A |-> in[1], B |-> in[2]]

NewArc ==
    \E in \in ArcCtorInputs :
        /\ Construct(ArcElement(in[1], in[2], in[3], in[4]))
        /\ call' = [op |-> "ArcElement", A |-> in[1], B |-> in[2],
                    radius |-> in[3], side |-> in[4]]

NewClothoid ==
    \E in \in ClothoidCtorInputs :
        /\ Construct(ClothoidElement(in[1], in[2], in[3], in[4], in[5], in[6]))
        /\ call' = [op |-> "ClothoidElement"]

\* elem.sample(step)
ElementSample ==
    \E step \in Steps :
        /\ elem # NoElement
        /\ ret' = Sample(elem, step)
        /\ call' = [op |-> "sample", step |-> step, returned |-> ~SampleLoops(elem, step)]
        /\ UNCHANGED <<elements, total_length, elem, surface>>

\* elem.to_dict()
ElementToDict ==
    /\ elem # NoElement
    /\ ret' = ToDict(elem)
    /\ call' = [op |-> "to_dict"]
    /\ UNCHANGED <<elements, total_length, elem, surface>>

\* cls.from_dict(d) on a dict read from a file
ElementFromDict ==
    \E in \in FromDictInputs :
        /\ ret' = FromDictOf(in[1], in[2])
        /\ call' = [op |-> "from_dict", cls |-> in[1], d |-> in[2], roundtrip |-> FALSE]
        /\ UNCHANGED <<elements, total_length, elem, surface>>

\* cls.from_dict(d) on the dict that elem.to_dict() has just returned
ElementRoundTrip ==
    /\ call.op = "to_dict"
    /\ ret' = FromDictOf(ret.type, ret)
    /\ call' = [op |-> "from_dict", cls |-> ret.type, d |-> ret, roundtrip |-> TRUE]
    /\ UNCHANGED <<elements, total_length, elem, surface>>

NextElem ==
    \/ NewLine
    \/ NewArc
    \/ NewClothoid
    \/ ElementSample
    \/ ElementToDict
    \/ ElementFromDict
    \/ ElementRoundTrip

SpecElem == Init /\ [][NextElem]_vars

\* ------------------------------------------------------------------------
\* CanvasWidget: points, triangulation and its cache
\* ------------------------------------------------------------------------
\* the dict add_point appends; data keeps the fields the surface code reads
PointShape(pid, x, y, z) ==
    [type |-> "point", pos |-> <<x, y>>, data |-> [id |-> pid, z |-> z]]

IsPoint(s) == s.type = "point"

PointsOf(shp) == SelectSeq(shp, IsPoint)

\* hash(float): the value itself, except that CPython reserves -1, so
\* hash(-1.0) = hash(-2.0) = -2
HashFloat(v) == IF v = -Scale THEN -2 * Scale ELSE v

\* _points_hash: the hash of a tuple is a function of its items' hashes
points_hash(shp) ==
    LET pts == PointsOf(shp)
    IN [i \in 1..Len(pts) |->
          <<HashFloat(pts[i].pos[1]), HashFloat(pts[i].pos[2]),
            HashFloat(pts[i].data.z)>>]

\* scipy.spatial.Delaunay is a library: it is modelled by what it
\* guarantees, the triangles whose circumcircle holds no other point.
\* Positions are whole multiples of Scale and are reduced to whole units, so
\* that the determinants stay exact.
Unit(v) == v \div Scale

Orient(a, b, c) ==
    (Unit(b[1]) - Unit(a[1])) * (Unit(c[2]) - Unit(a[2]))
      - (Unit(b[2]) - Unit(a[2])) * (Unit(c[1]) - Unit(a[1]))

\* > 0 when d lies strictly inside the circle through a, b, c
InCircle(a, b, c, d) ==
    LET ax == Unit(a[1]) - Unit(d[1])
        ay == Unit(a[2]) - Unit(d[2])
        bx == Unit(b[1]) - Unit(d[1])
        by == Unit(b[2]) - Unit(d[2])
        cx == Unit(c[1]) - Unit(d[1])
        cy == Unit(c[2]) - Unit(d[2])
        det == (ax * ax + ay * ay) * (bx * cy - cx * by)
                 - (bx * bx + by * by) * (ax * cy - cx * ay)
                 + (cx * cx + cy * cy) * (ax * by - bx * ay)
    IN IF Orient(a, b, c) > 0 THEN det ELSE -det

IsSimplex(coords, i, j, k) ==
    /\ Orient(coords[i], coords[j], coords[k]) # 0
    /\ \A m \in (1..Len(coords)) \ {i, j, k} :
          InCircle(coords[i], coords[j], coords[k], coords[m]) <= 0

\* the index triples i < j < k of 1..n in lexicographic order
TripleSeq(n) ==
    LET RECURSIVE from(_, _, _)
        from(i, j, k) ==
            IF i > n - 2 THEN <<>>
            ELSE IF j > n - 1 THEN from(i + 1, i + 2, i + 3)
            ELSE IF k > n THEN from(i, j + 1, j + 2)
            ELSE <<<<i, j, k>>>> \o from(i, j, k + 1)
    IN from(1, 2, 3)

\* tri.simplices of Delaunay(arr)
Simplices(coords) ==
    LET IsS(t) == IsSimplex(coords, t[1], t[2], t[3])
    IN SelectSeq(TripleSeq(Len(coords)), IsS)

\* Delaunay(arr) raises QhullError when the points span no triangle
DelaunayRaises(coords) == Simplices(coords) = <<>>

Corner(coords, zs, i) == <<coords[i][1], coords[i][2], zs[i]>>

\* one triangle per simplex, each corner with the elevation of its point
DelaunayTriangles(coords, zs) ==
    LET tri == Simplices(coords)
    IN [t \in 1..Len(tri) |->
          <<Corner(coords, zs, tri[t][1]), Corner(coords, zs, tri[t][2]),
            Corner(coords, zs, tri[t][3])>>]

RECURSIVE SumCoord(_, _, _)
SumCoord(coords, axis, i) ==
    IF i > Len(coords) THEN 0 ELSE coords[i][axis] + SumCoord(coords, axis, i + 1)

\* get_z_at: the elevation of the first point nearest to pt
GetZAt(coords, zs, pt) ==
    LET d(i) == (coords[i][1] - pt[1]) * (coords[i][1] - pt[1])
                  + (coords[i][2] - pt[2]) * (coords[i][2] - pt[2])
        best == CHOOSE i \in 1..Len(coords) :
                   /\ \A j \in 1..Len(coords) : d(i) <= d(j)
                   /\ \A j \in 1..(i - 1) : d(j) > d(i)
    IN zs[best]

TriangulateFallbackOpenFan(coords, zs) ==
    IF Len(coords) < 3 THEN <<>>
    ELSE LET n == Len(coords)
             c == <<RDiv(SumCoord(coords, 1, 1), n), RDiv(SumCoord(coords, 2, 1), n)>>
             at(pt) == <<pt[1], pt[2], GetZAt(coords, zs, pt)>>
         IN [i \in 1..(n - 1) |-> <<at(c), at(coords[i]), at(coords[i + 1])>>]

\* _triangulate_fallback: a fan around the centroid
triangulate_fallback(coords, zs) ==
    IF Len(coords) < 3 THEN <<>>
    ELSE LET n == Len(coords)
             c == <<RDiv(SumCoord(coords, 1, 1), n), RDiv(SumCoord(coords, 2, 1), n)>>
             at(pt) == <<pt[1], pt[2], GetZAt(coords, zs, pt)>>
         IN [i \in 1..n |-> <<at(c), at(coords[i]), at(coords[(i % n) + 1])>>]

\* the automatic part of compute_triangulation
AutoTriangles(pts, hd) ==
    LET coords == [i \in 1..Len(pts) |-> pts[i].pos]
        zs == [i \in 1..Len(pts) |-> pts[i].data.z]
    IN IF hd /\ ~DelaunayRaises(coords) THEN DelaunayTriangles(coords, zs)
       ELSE triangulate_fallback(coords, zs)

\* shapes[i] for a Python index i: the shape, or <<>> when it raises
ShapeAt(shp, i) ==
    IF i >= 0 /\ i < Len(shp) THEN <<shp[i + 1]>>
    ELSE IF i < 0 /\ -i <= Len(shp) THEN <<shp[Len(shp) + i + 1]>>
    ELSE <<>>

\* the manual triangles whose three indices still resolve
RECURSIVE ManualTriangles(_, _, _)
ManualTriangles(shp, tris, t) ==
    IF t > Len(tris) THEN <<>>
    ELSE LET v0 == ShapeAt(shp, tris[t][1])
             v1 == ShapeAt(shp, tris[t][2])
             v2 == ShapeAt(shp, tris[t][3])
             xyz(v) == <<v[1].pos[1], v[1].pos[2], v[1].data.z>>
         IN (IF v0 = <<>> \/ v1 = <<>> \/ v2 = <<>> THEN <<>>
             ELSE <<<<xyz(v0), xyz(v1), xyz(v2)>>>>)
            \o ManualTriangles(shp, tris, t + 1)

\* the mesh compute_triangulation builds when it does not use the cache
FullMesh(shp, tris, hd) ==
    AutoTriangles(PointsOf(shp), hd) \o ManualTriangles(shp, tris, 1)

CacheHitEither(cached, current_hash, last) ==
    cached # <<>> \/ <<current_hash>> = last

\* self._cached_triangles is not None and current_hash == self._last_pts_hash
CacheHit(cached, current_hash, last) ==
    cached # <<>> /\ <<current_hash>> = last

\* what "return self._cached_triangles" hands back; None reads as <<>>
CachedValue(cached) == IF cached = <<>> THEN <<>> ELSE cached[1]

\* compute_triangulation: the mesh returned and the cache fields after it
compute_triangulation(shp, tris, cached, last, hd) ==
    IF Len(PointsOf(shp)) < 3
    THEN [mesh |-> <<>>, cached |-> cached, last |-> last, hit |-> FALSE]
    ELSE IF CacheHit(cached, points_hash(shp), last)
    THEN [mesh |-> CachedValue(cached), cached |-> cached, last |-> last,
          hit |-> TRUE]
    ELSE LET full == FullMesh(shp, tris, hd)
         IN [mesh |-> full, cached |-> <<full>>,
             last |-> <<points_hash(shp)>>, hit |-> FALSE]

\* ---- contours ----------------------------------------------------------
\* CanvasWidget.contour_main_interval and contour_sub_divisions as constructed
contour_main_interval == 5 * Scale
contour_sub_divisions == 4

\* math.floor(a / b) for b # 0
FloorDiv(a, b) == IF b > 0 THEN a \div b ELSE (-a) \div (-b)

RECURSIVE MinOf(_)
MinOf(zs) == IF Len(zs) = 1 THEN zs[1] ELSE Min(zs[1], MinOf(Tail(zs)))

RECURSIVE MaxOf(_)
MaxOf(zs) == IF Len(zs) = 1 THEN zs[1] ELSE Max(zs[1], MaxOf(Tail(zs)))

\* zs = [v[2] for tri in triangles for v in tri]
MeshZs(mesh) == [k \in 1..(3 * Len(mesh)) |-> mesh[((k - 1) \div 3) + 1][((k - 1) % 3) + 1][3]]

MainLevelsBelowMax(start, maxz, main_interval) ==
    LET RECURSIVE up(_)
        up(L) == IF L < maxz THEN <<L>> \o up(L + main_interval) ELSE <<>>
    IN up(start)

\* the while loop: L = start, start + main_interval, ... while L <= maxz
MainLevels(start, maxz, main_interval) ==
    LET RECURSIVE up(_)
        up(L) == IF L <= maxz THEN <<L>> \o up(L + main_interval) ELSE <<>>
    IN up(start)

\* the levels after the sub_divisions loop (levels is not empty)
SubdividedLevels(levels, sub_divisions) ==
    LET between(i) ==
            LET a == levels[i]
                step == RDiv(levels[i + 1] - a, sub_divisions + 1)
            IN <<a>> \o [j \in 1..sub_divisions |-> a + j * step]
        RECURSIVE pairs(_)
        pairs(i) == IF i > Len(levels) - 1 THEN <<>> ELSE between(i) \o pairs(i + 1)
    IN pairs(1) \o <<levels[Len(levels)]>>

\* the point of edge a -> b at elevation lev, t = (lev - za) / (zb - za)
Interpolate(a, b, lev) ==
    LET t == RDiv((lev - a[3]) * Scale, b[3] - a[3])
    IN <<a[1] + RDiv((b[1] - a[1]) * t, Scale), a[2] + RDiv((b[2] - a[2]) * t, Scale)>>

\* pts_on after the loop over the three edges of one triangle
PtsOn(tri, lev) ==
    LET edge(i) ==
            LET a == tri[i]
                b == tri[(i % 3) + 1]
            IN IF (a[3] < lev /\ b[3] < lev) \/ (a[3] > lev /\ b[3] > lev) THEN <<>>
               ELSE IF b[3] = a[3] THEN <<>>
               ELSE <<Interpolate(a, b, lev)>>
    IN edge(1) \o edge(2) \o edge(3)

\* what one triangle appends to segs[lev]
TriangleSegment(tri, lev) ==
    LET pts_on == PtsOn(tri, lev)
    IN IF Len(pts_on) >= 2 /\ pts_on[1] # pts_on[2]
       THEN <<<<pts_on[1], pts_on[2]>>>>
       ELSE <<>>

RECURSIVE LevelSegments(_, _, _)
LevelSegments(mesh, lev, t) ==
    IF t > Len(mesh) THEN <<>>
    ELSE TriangleSegment(mesh[t], lev) \o LevelSegments(mesh, lev, t + 1)

NoContours == [lev \in {} |-> <<>>]

\* compute_contours from "start = ..." on: main_interval and sub_divisions
\* are resolved and the mesh is not flat
LevelContours(mesh, main_interval, sub_divisions) ==
    IF main_interval = 0 THEN NoContours
    ELSE
      LET maxz == MaxOf(MeshZs(mesh))
          start == FloorDiv(MinOf(MeshZs(mesh)), main_interval) * main_interval
      IN IF main_interval < 0 /\ start <= maxz THEN Diverges
         ELSE IF main_interval < 0 THEN NoContours
         ELSE
           LET main == MainLevels(start, maxz, main_interval)
               levels == IF sub_divisions > 0
                         THEN SubdividedLevels(main, sub_divisions)
                         ELSE main
               keys == {levels[i] : i \in 1..Len(levels)}
           IN [lev \in keys |-> LevelSegments(mesh, lev, 1)]

\* an optional argument is <<>> for None and <<v>> for a value
MainIntervalOf(arg) == IF arg = <<>> THEN contour_main_interval ELSE arg[1]

SubDivisionsOf(arg) == IF arg = <<>> THEN contour_sub_divisions ELSE arg[1]

ComputeContoursNoFlatTest(mesh, main_interval_arg, sub_divisions_arg) ==
    IF mesh = <<>> THEN NoContours
    ELSE LevelContours(mesh, MainIntervalOf(main_interval_arg),
                       SubDivisionsOf(sub_divisions_arg))

\* compute_contours on the mesh compute_triangulation returned
compute_contours(mesh, main_interval_arg, sub_divisions_arg) ==
    IF mesh = <<>> THEN NoContours
    ELSE IF MinOf(MeshZs(mesh)) = MaxOf(MeshZs(mesh)) THEN NoContours
    ELSE LevelContours(mesh, MainIntervalOf(main_interval_arg),
                       SubDivisionsOf(sub_divisions_arg))

\* ---- inputs of the canvas -------------------------------------------------
PointIds == {1, 2, 3}

\* pairwise different positions; the first three lie on one line, and two
\* points share the id 1
PointInputs ==
    {PointShape(1, 0, 0, 0), PointShape(2, 10 * Scale, 0, 5 * Scale),
     PointShape(3, 5 * Scale, 0, 10 * Scale), PointShape(1, 0, 10 * Scale, 0)}

PositionsOf(shp) == {shp[i].pos : i \in 1..Len(shp)}

\* ---- operations of the canvas ---------------------------------------------
\* canvas.add_point(pid, x, y, z)
AddPoint ==
    \E p \in PointInputs :
        /\ p.pos \notin PositionsOf(shapes)
        /\ shapes' = Append(shapes, p)
        /\ cached_triangles' = <<>>
        /\ call' = [op |-> "add_point", p |-> p]
        /\ ret' = "None"
        /\ UNCHANGED <<elements, total_length, elem, triangles, last_pts_hash,
                       has_delaunay, modes, selection>>

KeepShape(s, pid) == ~(s.type = "point" /\ s.data.id = pid)

\* canvas.remove_point_by_id(pid)
RemovePointById ==
    \E pid \in PointIds :
        /\ shapes' = SelectSeq(shapes, LAMBDA s : KeepShape(s, pid))
        /\ cached_triangles' = <<>>
        /\ call' = [op |-> "remove_point_by_id", pid |-> pid]
        /\ ret' = "None"
        /\ UNCHANGED <<elements, total_length, elem, triangles, last_pts_hash,
                       has_delaunay, modes, selection>>

\* mouseDoubleClickEvent on the point at best_idx, dialog accepted with newp
EditPoint ==
    \E best_idx \in 1..Len(shapes), newp \in PointInputs :
        /\ shapes[best_idx].type = "point"
        /\ newp.pos \notin PositionsOf(shapes) \ {shapes[best_idx].pos}
        /\ shapes' = [shapes EXCEPT ![best_idx] = newp]
        /\ cached_triangles' = <<>>
        /\ call' = [op |-> "edit_point", best_idx |-> best_idx, newp |-> newp]
        /\ ret' = "None"
        /\ UNCHANGED <<elements, total_length, elem, triangles, last_pts_hash,
                       has_delaunay, modes, selection>>

\* canvas.compute_triangulation()
ComputeTriangulation ==
    LET r == compute_triangulation(shapes, triangles, cached_triangles,
                                   last_pts_hash, has_delaunay)
    IN /\ cached_triangles' = r.cached
       /\ last_pts_hash' = r.last
       /\ ret' = r.mesh
       /\ call' = [op |-> "compute_triangulation", hit |-> r.hit,
                   after |-> call.op, pre_hash |-> last_pts_hash]
       /\ UNCHANGED <<elements, total_length, elem, shapes, triangles,
                      has_delaunay, modes, selection>>

\* the canvas on an installation with or without scipy
InitSurface ==
    /\ InitAlignment
    /\ InitCanvas
    /\ has_delaunay \in BOOLEAN

NextSurface ==
    \/ AddPoint
    \/ RemovePointById
    \/ EditPoint
    \/ ComputeTriangulation

SpecSurface == InitSurface /\ [][NextSurface]_vars

\* ---- contour extraction on given surfaces -----------------------------------
S3(x1, y1, z1, x2, y2, z2, x3, y3, z3) ==
    <<PointShape(1, x1 * Scale, y1 * Scale, z1 * Scale),
      PointShape(2, x2 * Scale, y2 * Scale, z2 * Scale),
      PointShape(3, x3 * Scale, y3 * Scale, z3 * Scale)>>

\* no points, two points, a flat triangle, tilted triangles whose vertices
\* lie on or between the levels, and a four-point surface
ContourSurfaces ==
    {<<>>,
     <<PointShape(1, 0, 0, 0), PointShape(2, 10 * Scale, 0, 5 * Scale)>>,
     S3(0, 0, 2, 10, 0, 2, 0, 10, 2),
     S3(0, 0, 0, 10, 0, 5, 0, 10, 10),
     S3(0, 0, 5, 10, 0, 0, 0, 10, 10),
     S3(0, 0, 5, 10, 0, 5, 0, 10, 10),
     S3(0, 0, 1, 10, 0, 4, 0, 10, 8),
     S3(0, 0, -3, 10, 0, 2, 0, 10, 6),
     Append(S3(0, 0, 1, 10, 0, 4, 0, 10, 7), PointShape(4, 7 * Scale, 8 * Scale, 12 * Scale))}

MainIntervalArgs == {<<>>, <<-5 * Scale>>, <<0>>, <<2 * Scale>>, <<5 * Scale>>}

SubDivisionArgs == {<<>>, <<-1>>, <<0>>, <<1>>, <<2>>}

\* canvas.compute_contours(main_interval, sub_divisions)
ComputeContours ==
    \E mi \in MainIntervalArgs, sd \in SubDivisionArgs :
        LET r == compute_triangulation(shapes, triangles, cached_triangles,
                                       last_pts_hash, has_delaunay)
        IN /\ cached_triangles' = r.cached
           /\ last_pts_hash' = r.last
           /\ ret' = compute_contours(r.mesh, mi, sd)
           /\ call' = [op |-> "compute_contours", main_interval |-> mi,
                       sub_divisions |-> sd, mesh |-> r.mesh]
           /\ UNCHANGED <<elements, total_length, elem, shapes, triangles,
                          has_delaunay, modes, selection>>

\* a canvas that already holds one of the surfaces
InitContour ==
    /\ InitAlignment
    /\ shapes \in ContourSurfaces
    /\ triangles = <<>>
    /\ cached_triangles = <<>>
    /\ last_pts_hash = <<>>
    /\ InitModes
    /\ has_delaunay \in BOOLEAN

NextContour ==
    \/ ComputeTriangulation
    \/ ComputeContours

SpecContour == InitContour /\ [][NextContour]_vars

\* ---- mouse clicks on the canvas -------------------------------------------
\* manual triangles a behaviour may collect through clicks
MaxTriangles == 1

AcceptClickAlways(clicks, idx) == Append(clicks, idx)

\* lines 213-214: a click on a point is taken unless it repeats the point
\* clicked immediately before
AcceptClick(clicks, idx) ==
    IF clicks = <<>> \/ idx # clicks[Len(clicks)] THEN Append(clicks, idx) ELSE clicks

\* set(tri) == set(t)
SameVertexSet(tri, t) == {tri[1], tri[2], tri[3]} = {t[1], t[2], t[3]}

\* lines 217-218: the triangle is appended unless one with the same vertex
\* set is in the list
AppendTriangle(tris, tri) ==
    IF \E t \in 1..Len(tris) : SameVertexSet(tri, tris[t]) THEN tris
    ELSE Append(tris, tri)

\* _find_nearest_point_index: None, or the shapes index of a point
PointHits(shp) == {<<>>} \cup {<<i - 1>> : i \in {j \in 1..Len(shp) : IsPoint(shp[j])}}

\* _find_nearest_triangle_edge: None, or the index of a manual triangle whose
\* three indices resolve
EdgeHits(shp, tris) ==
    {<<>>} \cup {<<t - 1>> : t \in {u \in 1..Len(tris) :
                     \A c \in 1..3 : ShapeAt(shp, tris[u][c]) # <<>>}}

\* the add-triangle branch of mousePressEvent
AddTriangleClick(hit) ==
    LET clicks == IF hit = <<>> THEN add_triangle_clicks
                  ELSE AcceptClick(add_triangle_clicks, hit[1])
    IN IF hit # <<>> /\ Len(clicks) >= 3
       THEN /\ triangles' = AppendTriangle(triangles, SubSeq(clicks, 1, 3))
            /\ add_triangle_clicks' = <<>>
            /\ add_triangle_mode' = FALSE
            /\ cached_triangles' = <<>>
            /\ UNCHANGED <<delete_triangle_mode, selection>>
       ELSE /\ add_triangle_clicks' = clicks
            /\ UNCHANGED <<triangles, add_triangle_mode, cached_triangles,
                           delete_triangle_mode, selection>>

\* the delete-triangle branch of mousePressEvent
DeleteTriangleClick(edge) ==
    IF edge # <<>>
    THEN /\ triangles' = ListDelete(triangles, edge[1])
         /\ cached_triangles' = <<>>
         /\ UNCHANGED <<modes, selection>>
    ELSE UNCHANGED <<triangles, cached_triangles, modes, selection>>

\* str(shapes[idx]['data'].get('id', ''))
PointId(shp, idx) == shp[idx + 1].data.id

\* the mandatory-selection branch of mousePressEvent
MandatoryClick(hit) ==
    /\ IF hit # <<>>
       THEN LET pid == PointId(shapes, hit[1])
            IN selected_mandatory_ids' =
                  IF pid \in selected_mandatory_ids
                  THEN selected_mandatory_ids \ {pid}
                  ELSE selected_mandatory_ids \cup {pid}
       ELSE UNCHANGED selected_mandatory_ids
    /\ UNCHANGED <<triangles, cached_triangles, modes, selection_mode, panning>>

\* the last branch of mousePressEvent: the left button starts panning
StartPan ==
    /\ panning' = TRUE
    /\ UNCHANGED <<triangles, cached_triangles, modes, selection_mode,
                   selected_mandatory_ids>>

\* mousePressEvent with the left button; hit and edge are what the two
\* nearest-object searches find at the click position
LeftPress ==
    \E hit \in PointHits(shapes), edge \in EdgeHits(shapes, triangles) :
        /\ IF add_triangle_mode THEN AddTriangleClick(hit)
           ELSE IF delete_triangle_mode THEN DeleteTriangleClick(edge)
           ELSE IF selection_mode = "mandatory_select" THEN MandatoryClick(hit)
           ELSE StartPan
        /\ Len(triangles') <= MaxTriangles
        /\ call' = [op |-> "mouse_press", hit |-> hit, add_mode |-> add_triangle_mode]
        /\ ret' = "None"
        /\ UNCHANGED <<elements, total_length, elem, shapes, last_pts_hash, has_delaunay>>

\* mouseReleaseEvent with the left button
LeftRelease ==
    /\ panning' = FALSE
    /\ call' = [op |-> "mouse_release"]
    /\ ret' = "None"
    /\ UNCHANGED <<elements, total_length, elem, shapes, triangles, cached_triangles,
                   last_pts_hash, has_delaunay, modes, selection_mode,
                   selected_mandatory_ids>>

\* canvas.start_add_triangle_mode()
StartAddTriangleMode ==
    /\ add_triangle_mode' = TRUE
    /\ add_triangle_clicks' = <<>>
    /\ cached_triangles' = <<>>
    /\ call' = [op |-> "start_add_triangle_mode"]
    /\ ret' = "None"
    /\ UNCHANGED <<elements, total_length, elem, shapes, triangles, last_pts_hash,
                   has_delaunay, delete_triangle_mode, selection>>

\* canvas.set_delete_triangle_mode(flag)
SetDeleteTriangleMode ==
    \E flag \in BOOLEAN :
        /\ delete_triangle_mode' = flag
        /\ cached_triangles' = <<>>
        /\ call' = [op |-> "set_delete_triangle_mode", flag |-> flag]
        /\ ret' = "None"
        /\ UNCHANGED <<elements, total_length, elem, shapes, triangles, last_pts_hash,
                       has_delaunay, add_triangle_mode, add_triangle_clicks, selection>>

\* a canvas with three points; selection_mode is an attribute the window sets
InitClicks ==
    /\ InitAlignment
    /\ shapes = S3(0, 0, 0, 10, 0, 5, 0, 10, 10)
    /\ triangles = <<>>
    /\ cached_triangles = <<>>
    /\ last_pts_hash = <<>>
    /\ has_delaunay = TRUE
    /\ add_triangle_mode = FALSE
    /\ add_triangle_clicks = <<>>
    /\ delete_triangle_mode = FALSE
    /\ selection_mode \in {"none", "mandatory_select"}
    /\ selected_mandatory_ids = {}
    /\ panning = FALSE

NextClicks ==
    \/ StartAddTriangleMode
    \/ SetDeleteTriangleMode
    \/ LeftPress
    \/ LeftRelease
    \/ ComputeTriangulation

SpecClicks == InitClicks /\ [][NextClicks]_vars

\* ---- surfaces replaced by the main window ---------------------------------
ThreePoints == S3(0, 0, 0, 10, 0, 5, 0, 10, 10)
FourPoints == Append(ThreePoints, PointShape(4, 7 * Scale, 8 * Scale, 12 * Scale))

\* surface files as save_surface writes them: the points and the manual
\* triangles; one triple of the third file points past three points
SurfaceFiles ==
    {[points |-> ThreePoints, triangles |-> <<>>],
     [points |-> ThreePoints, triangles |-> <<<<0, 1, 2>>>>],
     [points |-> ThreePoints, triangles |-> <<<<0, 1, 2>>, <<1, 2, 3>>>>],
     [points |-> FourPoints, triangles |-> <<<<0, 1, 3>>>>]}

\* the points of the points canvas when create_surface is called
PointSources == {<<>>, ThreePoints, FourPoints}

\* main_window.load_surface: the points and the manual triangles of the
\* file replace those of the canvas, then compute_contours is called, which
\* starts with compute_triangulation
LoadSurface ==
    \E f \in SurfaceFiles :
        LET r == compute_triangulation(f.points, f.triangles, cached_triangles,
                                       last_pts_hash, has_delaunay)
        IN /\ shapes' = f.points
           /\ triangles' = f.triangles
           /\ cached_triangles' = r.cached
           /\ last_pts_hash' = r.last
           /\ call' = [op |-> "load_surface"]
           /\ ret' = "None"
           /\ UNCHANGED <<elements, total_length, elem, has_delaunay, modes, selection>>

\* main_window.create_surface: copies of the points of the points canvas
\* replace the shapes of the surface canvas, then compute_contours is called
CreateSurface ==
    \E pts \in PointSources :
        /\ IF pts = <<>>
           THEN UNCHANGED <<shapes, cached_triangles, last_pts_hash>>
           ELSE LET r == compute_triangulation(pts, triangles, cached_triangles,
                                               last_pts_hash, has_delaunay)
                IN /\ shapes' = pts
                   /\ cached_triangles' = r.cached
                   /\ last_pts_hash' = r.last
        /\ call' = [op |-> "create_surface"]
        /\ ret' = "None"
        /\ UNCHANGED <<elements, total_length, elem, triangles, has_delaunay, modes,
                       selection>>

InitMesh ==
    /\ InitAlignment
    /\ InitCanvas
    /\ has_delaunay \in BOOLEAN

NextMesh ==
    \/ LoadSurface
    \/ CreateSurface
    \/ RemovePointById
    \/ ComputeTriangulation

SpecMesh == InitMesh /\ [][NextMesh]_vars

\* ------------------------------------------------------------------------
\* design_standards: the design advisor
\* ------------------------------------------------------------------------
\* speeds are kept in tenths of a km/h, friction and superelevation in 1e-4
SpeedScale == 10
FricScale == 10000

FRICTION_TABLE ==
    <<<<20 * SpeedScale, 2400>>, <<30 * SpeedScale, 2200>>,
      <<50 * SpeedScale, 1800>>, <<70 * SpeedScale, 1600>>,
      <<90 * SpeedScale, 1400>>, <<120 * SpeedScale, 1200>>>>

SuperelevationTypical == 400

linear_interpolate(x, x0, y0, x1, y1) ==
    IF x1 = x0 THEN (y0 + y1) \div 2
    ELSE y0 + RDiv((x - x0) * (y1 - y0), x1 - x0)

recommend_friction(speed_kmh) ==
    LET table == FRICTION_TABLE
        n == Len(table)
    IN IF speed_kmh <= table[1][1] THEN table[1][2]
       ELSE IF speed_kmh >= table[n][1] THEN table[n][2]
       ELSE LET i == CHOOSE k \in 1..(n - 1) :
                        /\ table[k][1] <= speed_kmh /\ speed_kmh <= table[k + 1][1]
                        /\ \A m \in 1..(k - 1) :
                              ~(table[m][1] <= speed_kmh /\ speed_kmh <= table[m + 1][1])
            IN linear_interpolate(speed_kmh, table[i][1], table[i][2],
                                  table[i + 1][1], table[i + 1][2])

\* R = V^2 / (127 (e + f)) with the default e and f, in Scale units; the
\* denominator is positive for every friction of the table
min_radius_from_superelevation_and_friction(speed_kmh) ==
    LET denom == 127 * (SuperelevationTypical + recommend_friction(speed_kmh))
        vv == (speed_kmh * speed_kmh) * (FricScale \div (SpeedScale * SpeedScale))
    IN (vv \div denom) * Scale + RDiv((vv % denom) * Scale, denom)

RecommendRadiusRangeNoMargin(chord_length, speed_kmh) ==
    LET chord == Max(0, chord_length)
        r_sup == min_radius_from_superelevation_and_friction(speed_kmh)
    IN <<Max(3 * Scale, Max(Max(3 * Scale, RDiv(chord, 8)), RDiv(r_sup * 2, 10))),
         Max(30 * Scale, chord * 8)>>

recommend_radius_range(chord_length, speed_kmh) ==
    LET chord == Max(0, chord_length)
        baseline_min == Max(3 * Scale, RDiv(chord, 8))
        baseline_max == Max(30 * Scale, chord * 8)
        r_from_sup == min_radius_from_superelevation_and_friction(speed_kmh)
        r_min == Max(3 * Scale, Max(baseline_min, RDiv(r_from_sup * 2, 10)))
        r_max == Max(r_min + Scale, baseline_max)
    IN <<r_min, r_max>>

recommend_spiral_length_range(radius) ==
    LET R == Max(0, radius)
        Ls_min == Max(3 * Scale, RDiv(4 * R, 100))
        Ls_max == Min(Max(10 * Scale, RDiv(15 * R, 100)), 200 * Scale)
    IN IF Ls_min > Ls_max THEN <<Ls_max \div 2, Ls_max>> ELSE <<Ls_min, Ls_max>>

\* a value of the params dict: <<"num", v>> is a number, <<"str", 0>> is a
\* string float() cannot read
IsNum(v) == v[1] = "num"

\* (curve_type or '').lower().strip()
CurveTypeNorm(t) ==
    IF t = "None" THEN "" ELSE IF t = "ARC " THEN "arc" ELSE t

\* a float so large that subtracting 2 * pi gives the same float back
\* (any value from about 2^55 on, and inf); Absorbing stands for them
Absorbing == 1000000000

\* dh - 2 * math.pi in floating point
SubTwoPi(dh) == IF dh >= Absorbing THEN dh ELSE dh - TwoPI

\* "while dh > math.pi: dh = abs(dh - 2 * math.pi)" never ends
HeadingLoops(lh, rh) ==
    /\ lh # <<>> /\ rh # <<>>
    /\ Abs(rh[1] - lh[1]) >= Absorbing

\* the while loop that folds dh into [0, pi]
RECURSIVE FoldHeading(_)
FoldHeading(dh) ==
    IF dh > PI /\ dh < Absorbing THEN FoldHeading(Abs(SubTwoPi(dh))) ELSE dh

\* the heading check: it can only add a warning
HeadingWarnings(left_heading, right_heading) ==
    IF left_heading = <<>> \/ right_heading = <<>> THEN <<>>
    ELSE IF FoldHeading(Abs(right_heading[1] - left_heading[1])) > RDiv(PI * 95, 100)
         THEN <<"heading change">>
         ELSE <<>>

ArcErrorsRadiusAsDiameter(chord, R) ==
    IF R <= 0 THEN <<"radius not positive">>
    ELSE IF chord > R THEN <<"chord exceeds 2R">>
    ELSE <<>>

\* the errors of the 'arc' branch
ArcErrors(chord, R) ==
    IF R <= 0 THEN <<"radius not positive">>
    ELSE IF chord > 2 * R THEN <<"chord exceeds 2R">>
    ELSE <<>>

\* the warnings of the 'arc' branch
ArcWarnings(R, range, min_r_sup) ==
    IF R <= 0 THEN <<>>
    ELSE (IF R < range[1] THEN <<"radius below range">> ELSE <<>>)
         \o (IF R > range[2] THEN <<"radius above range">> ELSE <<>>)
         \o (IF R < RDiv(2 * min_r_sup, 10) THEN <<"radius far below superelevation">>
              ELSE <<>>)

SpiralErrorsRadiusOnly(R, Ls) ==
    IF R <= 0 THEN <<"radius not positive">> ELSE <<>>

SpiralErrors(R, Ls) ==
    IF R <= 0 THEN <<"radius not positive">>
    ELSE IF Ls <= 0 THEN <<"spiral length not positive">>
    ELSE <<>>

SpiralWarnings(chord, R, Ls) ==
    IF R <= 0 THEN <<>>
    ELSE LET ls == recommend_spiral_length_range(R)
         IN (IF chord > 20 * R THEN <<"chord far exceeds radius">> ELSE <<>>)
            \o (IF Ls > 0 /\ Ls < ls[1] THEN <<"spiral length below range">> ELSE <<>>)
            \o (IF Ls > 0 /\ Ls > ls[2] THEN <<"spiral length above range">> ELSE <<>>)

Report(errors, warnings, chord, range) ==
    [ok |-> errors = <<>>, errors |-> errors, warnings |-> warnings,
     chord_length_m |-> chord, radius_range_m |-> range]

\* the result when the outer except clause catches an exception: the one
\* generic error, and the suggestions computed before the exception
InternalFailure(chord, range) == Report(<<"internal">>, <<>>, chord, range)

\* the body of the outer try block up to the heading check
CheckCurve(P_left, P_right, curve_type, params, speed_kmh) ==
    IF ~PointOk(P_left) \/ ~PointOk(P_right) THEN InternalFailure(<<>>, <<>>)
    ELSE
      LET chord == dist(P_right, P_left)
          range == recommend_radius_range(chord, speed_kmh)
          t == CurveTypeNorm(curve_type)
          radius == Get(params, "radius", <<"num", 0>>)
          spiral == Get(params, "spiral_length", <<"num", 0>>)
      IN IF t = "arc" THEN
              IF ~IsDict(params) \/ ~IsNum(radius) THEN InternalFailure(chord, range)
              ELSE Report(ArcErrors(chord, radius[2]),
                          ArcWarnings(radius[2], range,
                              min_radius_from_superelevation_and_friction(speed_kmh)),
                          chord, range)
         ELSE IF t \in {"spiral_arc_spiral", "spiral", "clothoid", "sas"} THEN
              IF ~IsDict(params) \/ ~IsNum(radius) \/ ~IsNum(spiral)
              THEN InternalFailure(chord, range)
              ELSE Report(SpiralErrors(radius[2], spiral[2]),
                          SpiralWarnings(chord, radius[2], spiral[2]), chord, range)
         ELSE Report(<<"unknown type">>, <<>>, chord, range)

\* the result, or Diverges when the call never returns; the heading check
\* is skipped when the outer except clause has caught an exception
validate_curve_parameters(P_left, P_right, lh, rh, curve_type, params, speed_kmh) ==
    LET r == CheckCurve(P_left, P_right, curve_type, params, speed_kmh)
    IN IF r.errors = <<"internal">> THEN r
       ELSE IF HeadingLoops(lh, rh) THEN Diverges
       ELSE [r EXCEPT !.warnings = @ \o HeadingWarnings(lh, rh)]

\* ---- inputs and operations of the advisor ------------------------------------
ChordInputs == {-5 * Scale, 0, Scale, 24 * Scale, 100 * Scale, 1000 * Scale, 5000 * Scale}

\* 0.1, 20, 25, 60, 120 and 300 km/h
SpeedInputs == {1, 20 * SpeedScale, 25 * SpeedScale, 60 * SpeedScale,
                120 * SpeedScale, 300 * SpeedScale}

\* tangent points at distance 10, 10 (oblique), 11, 9.9 and 0
TangentInputs ==
    {<<P(0, 0), P(10, 0)>>, <<P(0, 0), P(6, 8)>>, <<P(0, 0), P(11, 0)>>,
     <<P(0, 0), <<9900, 0>>>>, <<P(3, 3), P(3, 3)>>, <<P(0, 0), <<>>>>}

CurveTypeInputs == {"arc", "ARC ", "spiral", "spiral_arc_spiral", "bezier", "None"}

\* params dicts, and None in place of the dict
ParamInputs ==
    {[radius |-> <<"num", 0>>],
     [radius |-> <<"num", -5 * Scale>>], [spiral_length |-> <<"num", 15 * Scale>>],
     [radius |-> <<"str", 0>>], [radius |-> <<"num", 40 * Scale>>],
     [radius |-> <<"num", 100 * Scale>>, spiral_length |-> <<"num", 8 * Scale>>],
     [radius |-> <<"num", 5 * Scale>>, spiral_length |-> <<"num", 0>>],
     [radius |-> <<"num", 5 * Scale>>, spiral_length |-> <<"num", 15 * Scale>>],
     [radius |-> <<"num", 400>>, spiral_length |-> <<"num", Scale>>],
     [nondict |-> TRUE]}

\* speed_kmh: float = 60.0
DefaultSpeed == 60 * SpeedScale

HeadingInputs == {<<<<>>, <<>>>>, <<<<0>>, <<9300>>>>, <<<<0>>, <<Absorbing>>>>}

\* recommend_radius_range(chord_length, speed_kmh)
RecommendRadiusRange ==
    \E chord_length \in ChordInputs, speed_kmh \in SpeedInputs :
        /\ ret' = recommend_radius_range(chord_length, speed_kmh)
        /\ call' = [op |-> "recommend_radius_range", chord_length |-> chord_length,
                    speed_kmh |-> speed_kmh]
        /\ UNCHANGED <<elements, total_length, elem, surface>>

\* validate_curve_parameters(P_left, P_right, lh, rh, curve_type, params, speed)
ValidateCurveParameters ==
    \E ends \in TangentInputs, h \in HeadingInputs, curve_type \in CurveTypeInputs,
       params \in ParamInputs, speed_kmh \in {DefaultSpeed} :
        /\ ret' = validate_curve_parameters(ends[1], ends[2], h[1], h[2],
                                            curve_type, params, speed_kmh)
        /\ call' = [op |-> "validate_curve_parameters", P_left |-> ends[1],
                    P_right |-> ends[2], headings |-> h, curve_type |-> curve_type,
                    params |-> params, speed_kmh |-> speed_kmh]
        /\ UNCHANGED <<elements, total_length, elem, surface>>

\* radii and sides the curve dialog hands on
DialogRadii == {5 * Scale, 0, -5 * Scale, 40 * Scale}
DialogSides == {"left", "right"}

\* CurveDialog.on_ok for a simple arc: the parameters are validated and
\* accepted when the validator reports no error; element is what ArcElement
\* makes of the same tangent points, radius and side
OnOk ==
    \E ends \in TangentInputs, R \in DialogRadii, side \in DialogSides :
        /\ LET res == validate_curve_parameters(ends[1], ends[2], <<>>, <<>>, "arc",
                           [radius |-> <<"num", R>>], DefaultSpeed)
           IN ret' = [ok |-> res.ok, accepted |-> res.errors = <<>>,
                      element |-> ArcElement(ends[1], ends[2], R, side)]
        /\ call' = [op |-> "on_ok", P_left |-> ends[1], P_right |-> ends[2],
                    radius |-> R, side |-> side]
        /\ UNCHANGED <<elements, total_length, elem, surface>>

NextAdvisor ==
    \/ RecommendRadiusRange
    \/ ValidateCurveParameters
    \/ OnOk

SpecAdvisor == Init /\ [][NextAdvisor]_vars

\* ------------------------------------------------------------------------
\* Properties
\* ------------------------------------------------------------------------
\* the sum of the element lengths, from the head of the list
RECURSIVE TotalOf(_)
TotalOf(els) == IF els = <<>> THEN 0 ELSE Head(els).length + TotalOf(Tail(els))

\* s with x put in front of the element at 0-based position pos
InsertAt(s, pos, x) ==
    [k \in 1..(Len(s) + 1) |->
        IF k <= pos THEN s[k] ELSE IF k = pos + 1 THEN x ELSE s[k - 1]]

\* s without the element at 0-based position pos
RemoveAt(s, pos) ==
    [k \in 1..(Len(s) - 1) |-> IF k <= pos THEN s[k] ELSE s[k + 1]]

DistSq(a, b) == (a[1] - b[1]) * (a[1] - b[1]) + (a[2] - b[2]) * (a[2] - b[2])

\* C1: after every Alignment operation, failed calls and no-ops included, the
\* cached total_length is the sum of the lengths of the current elements.
C1_TotalLengthIsSum == total_length = TotalOf(elements)

\* a failed add_arc_by_points_radius on an alignment holding two elements
C1_Witness ==
    /\ call.op = "add_arc"
    /\ IsExc(ret)
    /\ Len(elements) = 2
    /\ total_length > 0

\* C2: ArcElement raises whenever the chord is zero or longer than 2 * radius,
\* for every radius (zero and negative included), and succeeds when the chord
\* is exactly 2 * radius.
C2_ArcRejectsInfeasible ==
    call.op = "ArcElement" =>
        LET chordSq == DistSq(call.A, call.B)
            exceeds == call.radius < 0 \/ chordSq > 4 * call.radius * call.radius
            tangent == call.radius > 0 /\ chordSq = 4 * call.radius * call.radius
        IN /\ (chordSq = 0 \/ exceeds) => IsExc(ret)
           /\ tangent => ~IsExc(ret)

\* the entry is a dict of a known type
KnownType(ed) ==
    /\ IsDict(ed)
    /\ Lower(Get(ed, "type", "")) \in {"line", "arc", "clothoid_poly", "clothoid"}

\* the class Alignment.from_dict uses for an entry of a known type
EntryClass(ed) ==
    LET t == Lower(Get(ed, "type", ""))
    IN IF t = "clothoid" THEN "clothoid_poly" ELSE t

\* the entry, taken alone, is of a known type and its element can be built
WellFormed(ed) == KnownType(ed) /\ ~IsExc(FromDictOf(EntryClass(ed), ed))

\* the elements of the well-formed entries, in the order of the list
LoadedFrom(el_list) ==
    LET good == SelectSeq(el_list, WellFormed)
    IN [k \in 1..Len(good) |-> FromDictOf(EntryClass(good[k]), good[k])]

\* C3: Alignment.from_dict loads exactly the entries that are well-formed on
\* their own, in their original order; a bad entry is skipped and the entries
\* after it are still loaded.
C3_FromDictIsolatesFailures ==
    call.op = "from_dict" => elements = LoadedFrom(call.el_list)

\* a good entry, an entry whose constructor raises, a good entry: both loaded
C3_Witness ==
    /\ call.op = "from_dict"
    /\ Len(call.el_list) = 3
    /\ WellFormed(call.el_list[1])
    /\ KnownType(call.el_list[2]) /\ ~WellFormed(call.el_list[2])
    /\ WellFormed(call.el_list[3])
    /\ Len(elements) = 2
    /\ elements[1] # elements[2]

\* C4: from_dict(to_dict(e)) succeeds, its to_dict equals to_dict(e) field for
\* field, and it samples to the same points as e for every step.
C4_RoundTripLossless ==
    (call.op = "from_dict" /\ call.roundtrip) =>
        /\ ~IsExc(ret)
        /\ ToDict(ret) = call.d
        /\ \A step \in Steps : Sample(ret, step) = Sample(elem, step)

\* a clothoid bending to the right went through to_dict and from_dict
C4_Witness ==
    /\ call.op = "from_dict"
    /\ call.roundtrip
    /\ elem.type = "clothoid_poly"
    /\ elem.side = "right"
    /\ Len(elem.poly) > 1
    /\ ~IsExc(ret)

\* C5 as stated: insert_element clamps the index to [0, len], a negative
\* index inserting at position 0.
C5_InsertClampsToFront ==
    call.op = "insert_element" =>
        elements = InsertAt(call.pre, Max(0, Min(call.index, Len(call.pre))), call.el)

\* the position insert_element inserts at
InsertPosition(pre, index) ==
    IF index < 0 THEN Max(0, Len(pre) + 1 + index) ELSE Min(index, Len(pre))

\* C5 amended: insert_element always inserts the element at a position in
\* [0, len] and keeps the order of the others; an index above len inserts at
\* the end, a negative index i inserts at len + 1 + i (so -1 appends), and at
\* position 0 only when that is still negative.
C5_InsertPosition ==
    call.op = "insert_element" =>
        /\ elements = InsertAt(call.pre, InsertPosition(call.pre, call.index), call.el)
        /\ Len(elements) = Len(call.pre) + 1

\* insert_element(-1, el) on two elements put el at the end
C5_Witness ==
    /\ call.op = "insert_element"
    /\ call.index = -1
    /\ Len(call.pre) = 2
    /\ elements[3] = call.el
    /\ elements[1] # call.el

\* C6: move_element with a valid source and an out-of-range destination still
\* moves the element: to the end for a too-large to_idx, to the front for a
\* negative one.
C6_MoveClampsDestination ==
    (/\ call.op = "move_element"
     /\ 0 <= call.from_idx /\ call.from_idx < Len(call.pre)
     /\ (call.to_idx < 0 \/ call.to_idx > Len(call.pre))) =>
        LET el == call.pre[call.from_idx + 1]
            rest == RemoveAt(call.pre, call.from_idx)
        IN elements = IF call.to_idx < 0 THEN <<el>> \o rest ELSE Append(rest, el)

\* C7: remove_element with an index outside [0, len - 1] changes neither the
\* elements nor total_length and raises nothing; with a valid index it removes
\* exactly that element and keeps the order of the others.
C7_RemoveElement ==
    call.op = "remove_element" =>
        /\ ret = "None"
        /\ IF 0 <= call.index /\ call.index < Len(call.pre)
           THEN elements = RemoveAt(call.pre, call.index)
           ELSE elements = call.pre /\ total_length = TotalOf(call.pre)

\* remove_element(-1) on two different elements removed nothing
C7_Witness ==
    /\ call.op = "remove_element"
    /\ call.index = -1
    /\ Len(call.pre) = 2
    /\ call.pre[1] # call.pre[2]
    /\ elements = call.pre

\* the structural fields of each element variant
StructuralFields(cls) ==
    IF cls = "line" THEN {"A", "B"}
    ELSE IF cls = "arc" THEN {"A", "B", "radius"}
    ELSE {"P0", "P1", "radius"}

\* C8: from_dict of an element dict that lacks a structural field (an end
\* point or the radius) raises, for every element variant; a missing
\* spiral_length or samples is defaulted to 10.0 and 64.
C8_MissingStructuralFieldRaises ==
    (call.op = "from_dict" /\ ~call.roundtrip) =>
        /\ (StructuralFields(call.cls) \ DOMAIN call.d # {}) => IsExc(ret)
        /\ (/\ call.cls = "clothoid_poly"
            /\ StructuralFields(call.cls) \subseteq DOMAIN call.d) =>
               /\ ~IsExc(ret)
               /\ "spiral_length" \notin DOMAIN call.d => ret.spiral_length = 10 * Scale
               /\ "samples" \notin DOMAIN call.d => ret.samples = 64

\* rounding allowance of the fixed-point coordinates
Eps == 2

\* C9: for a Line with A # B and step > 0, the sample starts at A, ends at B,
\* and consecutive points are at most step (plus epsilon) apart.
C9_LineSampleSpacing ==
    (call.op = "sample" /\ elem.type = "line" /\ elem.A # elem.B /\ call.step > 0) =>
        /\ ret[1] = elem.A
        /\ ret[Len(ret)] = elem.B
        /\ \A k \in 1..(Len(ret) - 1) :
              DistSq(ret[k], ret[k + 1]) <= (call.step + Eps) * (call.step + Eps)

\* an oblique line sampled into at least three intervals
C9_Witness ==
    /\ call.op = "sample"
    /\ elem.type = "line"
    /\ elem.A[1] # elem.B[1] /\ elem.A[2] # elem.B[2]
    /\ call.step > 0
    /\ Len(ret) >= 4

\* C10 as stated: a Line of length > 0 sampled with step > 0 yields exactly
\* ceil(length / step) points.
C10_LineSampleCeilPoints ==
    (call.op = "sample" /\ elem.type = "line" /\ elem.length > 0 /\ call.step > 0) =>
        Len(ret) = CeilDiv(elem.length, call.step)

\* C10 amended: a Line of length > 0 sampled with step > 0 yields exactly
\* ceil(length / step) + 1 uniformly spaced points (ceil(length / step)
\* intervals), both end points included; a Line of length 0 yields one point.
C10_LineSampleCount ==
    (call.op = "sample" /\ elem.type = "line") =>
        IF elem.length > 0
        THEN call.step > 0 =>
               LET n == CeilDiv(elem.length, call.step)
               IN /\ Len(ret) = n + 1
                  /\ ret[1] = elem.A
                  /\ ret[n + 1] = elem.B
                  /\ \A k \in 1..(n + 1) : \A c \in 1..2 :
                        Abs(n * (ret[k][c] - elem.A[c]) - (k - 1) * (elem.B[c] - elem.A[c])) <= n
        ELSE ret = <<elem.A>>

\* a line of length 10 sampled with step 5: three points
C10_Witness ==
    /\ call.op = "sample"
    /\ elem.type = "line"
    /\ elem.length = 10 * Scale
    /\ call.step = 5 * Scale
    /\ Len(ret) = 3

\* C11: every constructed arc has its center equidistant from A and B, a
\* span in (0, pi] (the shorter arc), length = radius * span, and sample(step)
\* walks that same span from A to B.
ArcTol == 60

NearPoint(p, q) == Abs(p[1] - q[1]) <= ArcTol /\ Abs(p[2] - q[2]) <= ArcTol

C11_ArcShorterSpan ==
    (elem.type = "arc") =>
        LET span == Abs(ArcAngle(elem.start_angle, elem.end_angle, elem.ccw))
        IN /\ Abs(dist(elem.center, elem.A) - dist(elem.center, elem.B)) <= ArcTol
           /\ span > 0 /\ span <= PI
           /\ elem.length = RDiv(elem.radius * span, AngScale)
           /\ ArcSampleSpan(elem) = span
           /\ (call.op = "sample" /\ call.step > 0) =>
                  /\ NearPoint(ret[1], elem.A)
                  /\ NearPoint(ret[Len(ret)], elem.B)

\* C12: Alignment.sample(step) is the in-order concatenation of the elements'
\* samples, where the first point of an element's sample is dropped exactly
\* when it equals the last point already emitted; nothing else is dropped,
\* reordered or added.
SampleOf(i) == Sample(elements[i], call.step)

\* the last point emitted before element i: the last point of the nearest
\* earlier element whose sample is not empty
RECURSIVE LastEmitted(_)
LastEmitted(i) ==
    IF i <= 1 THEN <<>>
    ELSE IF SampleOf(i - 1) # <<>>
         THEN <<SampleOf(i - 1)[Len(SampleOf(i - 1))]>>
         ELSE LastEmitted(i - 1)

Contribution(i) ==
    IF SampleOf(i) = <<>> THEN <<>>
    ELSE IF LastEmitted(i) = <<SampleOf(i)[1]>> THEN Tail(SampleOf(i))
    ELSE SampleOf(i)

RECURSIVE Contributions(_)
Contributions(i) ==
    IF i > Len(elements) THEN <<>> ELSE Contribution(i) \o Contributions(i + 1)

FirstIndex(s, key) == CHOOSE i \in 1..Len(s) :
                         /\ VertexKey(s[i]) = key
                         /\ \A j \in 1..(i - 1) : VertexKey(s[j]) # key

ElementEnds(e) ==
    IF e.type \in {"line", "arc"} THEN <<e.A, e.B>>
    ELSE <<e.poly[1], e.poly[Len(e.poly)]>>

AllEnds == [k \in 1..(2 * Len(elements)) |->
              ElementEnds(elements[(k + 1) \div 2])[2 - (k % 2)]]

C13_FlattenVertices ==
    (call.op = "flatten_vertices") =>
        /\ \A i, j \in 1..Len(ret) : i # j => VertexKey(ret[i]) # VertexKey(ret[j])
        /\ {VertexKey(ret[i]) : i \in 1..Len(ret)}
              = {VertexKey(AllEnds[k]) : k \in 1..Len(AllEnds)}
        /\ \A i, j \in 1..Len(ret) :
              i < j => FirstIndex(AllEnds, VertexKey(ret[i]))
                         < FirstIndex(AllEnds, VertexKey(ret[j]))
        /\ \A i \in 1..Len(ret) : ret[i] = AllEnds[FirstIndex(AllEnds, VertexKey(ret[i]))]

\* a repeated endpoint was removed
C13_Witness ==
    /\ call.op = "flatten_vertices"
    /\ Len(elements) >= 2
    /\ Len(ret) >= 2
    /\ Len(ret) < Len(AllEnds)

\* C14: every add_point, remove_point_by_id and point edit invalidates the
\* cached triangulation; compute_triangulation returns the mesh a fresh
\* computation from the current points gives, and returns the cached mesh
\* only when the (x,y,z) fingerprint of the points is unchanged.
PointMutations == {"add_point", "remove_point_by_id", "edit_point"}

FreshMesh ==
    IF Len(PointsOf(shapes)) < 3 THEN <<>>
    ELSE FullMesh(shapes, triangles, has_delaunay)

XYZ(shp) == [i \in 1..Len(PointsOf(shp)) |->
               <<PointsOf(shp)[i].pos[1], PointsOf(shp)[i].pos[2],
                 PointsOf(shp)[i].data.z>>]

C14_CacheInvalidated ==
    /\ (call.op \in PointMutations) => cached_triangles = <<>>
    /\ (call.op = "compute_triangulation") =>
          /\ ret = FreshMesh
          /\ call.hit => /\ call.after \notin PointMutations
                          /\ call.pre_hash = <<points_hash(shapes)>>
                          /\ call.pre_hash = <<XYZ(shapes)>>

\* a mesh had been cached, the points were then changed, and the next
\* compute_triangulation rebuilt the mesh
C14_Witness ==
    /\ call.op = "compute_triangulation"
    /\ call.after \in PointMutations
    /\ call.pre_hash # <<>>
    /\ call.pre_hash # <<points_hash(shapes)>>
    /\ ~call.hit
    /\ Len(ret) >= 1
    /\ cached_triangles = <<ret>>

\* C15 as stated: without manual triangles, fewer than 3 points give an empty
\* mesh and exactly 3 non-collinear points give exactly 1 triangle, on the
\* Delaunay path and on the fallback path.
ThreeNonCollinear ==
    /\ Len(PointsOf(shapes)) = 3
    /\ Orient(PointsOf(shapes)[1].pos, PointsOf(shapes)[2].pos,
              PointsOf(shapes)[3].pos) # 0

C15_ThreePointsOneTriangle ==
    (call.op = "compute_triangulation" /\ triangles = <<>>) =>
        /\ Len(PointsOf(shapes)) < 3 => ret = <<>>
        /\ ThreeNonCollinear => Len(ret) = 1

\* C15 amended: fewer than 3 points give an empty mesh on both paths; exactly
\* 3 non-collinear points give 1 triangle with the three points as corners
\* on the Delaunay path, and on the fallback path the 3 fan triangles that
\* join the centroid to each point and the next one in ring order.
Centroid3 ==
    <<RDiv(XYZ(shapes)[1][1] + XYZ(shapes)[2][1] + XYZ(shapes)[3][1], 3),
      RDiv(XYZ(shapes)[1][2] + XYZ(shapes)[2][2] + XYZ(shapes)[3][2], 3)>>

C15_ThreePointsMesh ==
    (call.op = "compute_triangulation" /\ triangles = <<>>) =>
        /\ Len(PointsOf(shapes)) < 3 => ret = <<>>
        /\ (ThreeNonCollinear /\ has_delaunay) =>
              /\ Len(ret) = 1
              /\ {ret[1][k] : k \in 1..3} = {XYZ(shapes)[k] : k \in 1..3}
        /\ (ThreeNonCollinear /\ ~has_delaunay) =>
              /\ Len(ret) = 3
              /\ \A i \in 1..3 :
                    /\ <<ret[i][1][1], ret[i][1][2]>> = Centroid3
                    /\ ret[i][2] = XYZ(shapes)[i]
                    /\ ret[i][3] = XYZ(shapes)[(i % 3) + 1]

\* three non-collinear points triangulated by the fallback fan
C15_Witness ==
    /\ call.op = "compute_triangulation"
    /\ triangles = <<>>
    /\ ThreeNonCollinear
    /\ ~has_delaunay
    /\ Len(ret) = 3

\* C16: for main_interval > 0 on a non-flat mesh the keys of the result are
\* exactly the main levels floor(min_z / main_interval) * main_interval +
\* k * main_interval up to max_z, plus, when sub_divisions > 0, exactly
\* sub_divisions evenly spaced levels strictly between each two consecutive
\* main levels, and none above the last main level.
MainInterval == MainIntervalOf(call.main_interval)

SubDivisions == SubDivisionsOf(call.sub_divisions)

MeshMinZ == MinOf(MeshZs(call.mesh))

MeshMaxZ == MaxOf(MeshZs(call.mesh))

NonFlat == call.mesh # <<>> /\ MeshMinZ # MeshMaxZ

LevelStart == (MeshMinZ \div MainInterval) * MainInterval

\* lev lies j parts of sub_divisions + 1 above the main level a
IsSubLevel(lev, a, j) ==
    Abs((SubDivisions + 1) * (lev - a) - j * MainInterval) <= (SubDivisions + 1) * Eps

MainLevelSet ==
    LET start == LevelStart
        step == MainInterval
    IN {start + k * step : k \in 0..((MeshMaxZ - start) \div step)}

C16_ContourLevels ==
    (call.op = "compute_contours" /\ MainInterval > 0 /\ NonFlat) =>
        LET keys == DOMAIN ret
            main == MainLevelSet
            top == CHOOSE m \in main : \A n \in main : n <= m
            step == MainInterval
            sub == SubDivisions
        IN /\ main \subseteq keys
           /\ \A lev \in keys : lev >= LevelStart /\ lev <= top
           /\ \A a \in main \ {top} :
                 LET inside == {lev \in keys : a < lev /\ lev < a + step}
                 IN IF sub > 0
                    THEN /\ Cardinality(inside) = sub
                         /\ \A j \in 1..sub :
                               \E lev \in inside : IsSubLevel(lev, a, j)
                    ELSE inside = {}

\* several main levels with sub-levels between them
C16_Witness ==
    /\ call.op = "compute_contours"
    /\ MainInterval > 0
    /\ NonFlat
    /\ SubDivisions = 2
    /\ Cardinality(MainLevelSet) >= 3
    /\ Cardinality(DOMAIN ret) = 3 * Cardinality(MainLevelSet) - 2

\* C17: on a flat mesh and on an empty mesh compute_contours returns an empty
\* mapping, whatever main_interval and sub_divisions are.
C17_FlatOrEmptyMesh ==
    (call.op = "compute_contours" /\ ~NonFlat) => ret = NoContours

\* a flat mesh of at least one triangle, asked with main_interval <= 0
C17_Witness ==
    /\ call.op = "compute_contours"
    /\ call.mesh # <<>>
    /\ MeshMinZ = MeshMaxZ
    /\ MainInterval <= 0
    /\ ret = NoContours

\* C18: for every triangle and level with the level strictly between the
\* triangle's lowest and highest vertex elevation (also when it equals the
\* elevation of the middle vertex) compute_contours emits exactly one
\* segment, whose ends are the two distinct interpolated crossing points on
\* the triangle's edges; for every other pair it emits no segment.
TriMinZ(tri) == Min(tri[1][3], Min(tri[2][3], tri[3][3]))

TriMaxZ(tri) == Max(tri[1][3], Max(tri[2][3], tri[3][3]))

Crosses(tri, lev) == TriMinZ(tri) < lev /\ lev < TriMaxZ(tri)

\* the points where the level plane meets the boundary of the triangle
Straddles(a, b, lev) == (a[3] < lev /\ lev < b[3]) \/ (a[3] > lev /\ lev > b[3])

CrossPoints(tri, lev) ==
    {Interpolate(tri[i], tri[(i % 3) + 1], lev) :
        i \in {e \in 1..3 : Straddles(tri[e], tri[(e % 3) + 1], lev)}}
      \cup {<<tri[i][1], tri[i][2]>> : i \in {v \in 1..3 : tri[v][3] = lev}}

C18_OneSegmentPerCrossing ==
    (call.op = "compute_contours" /\ MainInterval > 0 /\ NonFlat) =>
        \A lev \in DOMAIN ret :
            LET crossing == SelectSeq(call.mesh, LAMBDA tri : Crosses(tri, lev))
            IN /\ Len(ret[lev]) = Len(crossing)
               /\ \A k \in 1..Len(crossing) :
                     /\ ret[lev][k][1] # ret[lev][k][2]
                     /\ {ret[lev][k][1], ret[lev][k][2]} = CrossPoints(crossing[k], lev)

\* C19: recommend_radius_range(chord_length, speed_kmh) returns r_min < r_max
\* for every speed in (0, 300] km/h and every chord_length >= 0.
C19_RadiusRangeOrdered ==
    (/\ call.op = "recommend_radius_range"
     /\ call.speed_kmh > 0 /\ call.speed_kmh <= 300 * SpeedScale
     /\ call.chord_length >= 0) => ret[1] < ret[2]

\* a fast road with a short chord: the safety minimum exceeds the geometric
\* maximum and r_max is lifted above r_min
C19_Witness ==
    /\ call.op = "recommend_radius_range"
    /\ call.speed_kmh = 300 * SpeedScale
    /\ call.chord_length >= 0
    /\ ret[1] > Max(30 * Scale, 8 * call.chord_length)
    /\ ret[1] < ret[2]

\* C20: for curve type 'arc', validate_curve_parameters returns ok = false
\* with a non-empty errors list exactly when radius <= 0 or chord > 2 * radius;
\* a radius outside the recommended range or far below the superelevation
\* minimum only adds warnings and leaves ok = true.
\* a call that returned, made with two points and a params dict
NumericCall ==
    /\ call.op = "validate_curve_parameters"
    /\ PointOk(call.P_left) /\ PointOk(call.P_right)
    /\ IsDict(call.params)
    /\ ret # Diverges

ArcCall ==
    /\ NumericCall
    /\ CurveTypeNorm(call.curve_type) = "arc"
    /\ IsNum(Get(call.params, "radius", <<"num", 0>>))

CallRadius == Get(call.params, "radius", <<"num", 0>>)[2]

\* chord > 2R, decided on the squares; a chord of the model is below 46341
ChordExceedsDiameter ==
    /\ 2 * CallRadius <= 46340
    /\ DistSq(call.P_left, call.P_right) > (2 * CallRadius) * (2 * CallRadius)

SpiralCall ==
    /\ NumericCall
    /\ CurveTypeNorm(call.curve_type) \in {"spiral_arc_spiral", "spiral", "clothoid", "sas"}
    /\ IsNum(Get(call.params, "radius", <<"num", 0>>))
    /\ IsNum(Get(call.params, "spiral_length", <<"num", 0>>))

CallSpiralLength == Get(call.params, "spiral_length", <<"num", 0>>)[2]

SpiralOutsideRange ==
    LET ls == recommend_spiral_length_range(CallRadius)
    IN CallSpiralLength < ls[1] \/ CallSpiralLength > ls[2]

C21_SpiralValidation ==
    SpiralCall =>
        /\ ~ret.ok <=> (CallRadius <= 0 \/ CallSpiralLength <= 0)
        /\ (CallRadius > 0 /\ CallSpiralLength > 0) =>
              /\ ret.ok
              /\ (SpiralOutsideRange \/ ret.chord_length_m > 20 * CallRadius)
                    => ret.warnings # <<>>

\* a short spiral on a radius twenty times smaller than the chord: two
\* warnings and no error
C21_Witness ==
    /\ SpiralCall
    /\ CallRadius > 0 /\ CallSpiralLength > 0
    /\ SpiralOutsideRange
    /\ ret.chord_length_m > 20 * CallRadius
    /\ Len(ret.warnings) >= 2
    /\ ret.ok

\* C22: validate_curve_parameters never raises; for every input, an
\* unrecognized curve type and non-numeric or missing parameters included,
\* it returns a result whose ok is true exactly when errors is empty; an
\* unrecognized type and an internal failure each give ok = false, the
\* internal failure as a single generic error entry.
InternalFailureCase ==
    \/ ~PointOk(call.P_left) \/ ~PointOk(call.P_right)
    \/ /\ CurveTypeNorm(call.curve_type) \in {"arc", "spiral_arc_spiral", "spiral", "clothoid", "sas"}
       /\ \/ ~IsDict(call.params)
          \/ ~IsNum(Get(call.params, "radius", <<"num", 0>>))
    \/ /\ CurveTypeNorm(call.curve_type) \in {"spiral_arc_spiral", "spiral", "clothoid", "sas"}
       /\ ~IsNum(Get(call.params, "spiral_length", <<"num", 0>>))

UnknownTypeCase ==
    CurveTypeNorm(call.curve_type) \notin {"arc", "spiral_arc_spiral", "spiral", "clothoid", "sas"}

C22_ValidatorAlwaysReturns ==
    call.op = "validate_curve_parameters" =>
        /\ ret # Diverges
        /\ ret.ok <=> ret.errors = <<>>
        /\ InternalFailureCase => (~ret.ok /\ Len(ret.errors) = 1)
        /\ UnknownTypeCase => ~ret.ok

\* the part of C22 that the code keeps: a call that returns
C22_ReturnedResult ==
    (call.op = "validate_curve_parameters" /\ ret # Diverges) =>
        /\ ret.ok <=> ret.errors = <<>>
        /\ InternalFailureCase => ret.errors = <<"internal">>
        /\ UnknownTypeCase => ~ret.ok

\* a call with headings 0 and an absorbing float that never returns
C22_Hangs ==
    /\ call.op = "validate_curve_parameters"
    /\ call.headings[2] = <<Absorbing>>
    /\ ret = Diverges

\* C23: ClothoidElement.sample(step) with step > 0 returns a list that
\* starts with the first polyline vertex, whose interior points follow each
\* other at exactly step of arc length along the polyline, and that ends
\* with the final vertex exactly once, even when the last interval is
\* shorter than step; for P0 = P1 the polyline is the single point P0, the
\* length is 0 and sample returns that one point.
SampleTol == 30

\* the point at arc length s along the polyline, from vertex i on
RECURSIVE PointAt(_, _, _)
PointAt(poly, i, s) ==
    IF i >= Len(poly) THEN poly[Len(poly)]
    ELSE LET seg == dist(poly[i], poly[i + 1])
         IN IF seg > 0 /\ s <= seg
            THEN <<poly[i][1] + RDiv((poly[i + 1][1] - poly[i][1]) * s, seg),
                   poly[i][2] + RDiv((poly[i + 1][2] - poly[i][2]) * s, seg)>>
            ELSE PointAt(poly, i + 1, s - seg)

NearBy(p, q, tol) == Abs(p[1] - q[1]) <= tol /\ Abs(p[2] - q[2]) <= tol

\* coordinates of ordinary magnitude: the float spacing is far below SampleTol
OrdinaryMagnitude(e) ==
    \A k \in 1..Len(e.poly) : Abs(e.poly[k][1]) < CoarseFrom /\ Abs(e.poly[k][2]) < CoarseFrom

ClothoidSampled ==
    /\ call.op = "sample"
    /\ elem.type = "clothoid_poly"
    /\ call.step > 0
    /\ OrdinaryMagnitude(elem)

C23_ClothoidSample ==
    ClothoidSampled =>
        LET poly == elem.poly
            n == Len(ret)
            last == poly[Len(poly)]
        IN /\ ret[1] = poly[1]
           /\ ret[n] = last
           /\ \A k \in 1..(n - 1) : ret[k] # last
           /\ \A k \in 2..(n - 1) :
                 NearBy(ret[k], PointAt(poly, 1, (k - 1) * call.step), SampleTol)
           /\ (n - 2) * call.step <= elem.length + SampleTol
           /\ (n - 1) * call.step >= elem.length - SampleTol
           /\ elem.P0 = elem.P1 => (poly = <<elem.P0>> /\ elem.length = 0 /\ ret = <<elem.P0>>)

\* a bent polyline sampled with a step that does not divide its length: two
\* or more interior points and a short last interval
C23_Witness ==
    /\ ClothoidSampled
    /\ elem.spiral_length > 0
    /\ Len(ret) >= 4
    /\ (Len(ret) - 1) * call.step > elem.length + SampleTol
    /\ ret[Len(ret)] = elem.poly[Len(elem.poly)]

\* C30: ClothoidElement.sample(step) terminates for every constructed
\* element and every step > 0: each iteration of the inner loop shortens the
\* remaining segment by a positive amount.
C30_SampleTerminates ==
    (call.op = "sample" /\ elem.type = "clothoid_poly" /\ call.step > 0) => call.returned

\* the part of C30 that the code keeps: coordinates of ordinary magnitude
C30_OrdinaryTerminates ==
    (ClothoidSampled /\ OrdinaryMagnitude(elem)) => call.returned

\* a step below half the float spacing of the coordinates: the new point is
\* the previous point and the loop repeats its state
C30_Hangs ==
    /\ call.op = "sample" /\ elem.type = "clothoid_poly"
    /\ call.step > 0 /\ 2 * call.step < CoarseUlp
    /\ ~OrdinaryMagnitude(elem)
    /\ ~call.returned /\ ret = Diverges

\* C25: when add_line, add_arc_by_points_radius or add_clothoid fails
\* because the construction of the element raises, the alignment is exactly
\* as before the call: the same elements in the same order and the same
\* total_length.
FailedAdd ==
    /\ call.op \in {"add_line", "add_arc", "add_clothoid"}
    /\ IsExc(ret)

C25_FailedAddLeavesAlignment ==
    FailedAdd => (elements = call.pre /\ total_length = TotalOf(call.pre))

\* an arc whose radius is below half the chord, refused on a non-empty
\* alignment
C25_Witness ==
    /\ FailedAdd
    /\ call.op = "add_arc"
    /\ ret = Raise("ValueError")
    /\ Len(call.pre) >= 1
    /\ elements = call.pre

\* C26: the advisor and the element library agree on the feasibility of a
\* simple arc: when validate_curve_parameters(P_left, P_right, ..., 'arc',
\* {radius: R}) has ok = true, ArcElement(P_left, P_right, R, side) is
\* constructed without an exception; when the constructor rejects the
\* geometry (zero chord, radius too small) the validator has ok = false.
C26_AdvisorAgreesWithConstructor ==
    call.op = "on_ok" =>
        /\ ret.ok => ~IsExc(ret.element)
        /\ IsExc(ret.element) => ~ret.ok

\* the part of C26 that the code keeps: tangent points that are apart
C26_DistinctTangentPoints ==
    (/\ call.op = "on_ok"
     /\ PointOk(call.P_left) /\ PointOk(call.P_right)
     /\ DistSq(call.P_left, call.P_right) > 0) => (ret.ok => ~IsExc(ret.element))

\* coinciding tangent points with a positive radius: accepted by the
\* validator, refused by the constructor
C26_ZeroChordAccepted ==
    /\ call.op = "on_ok"
    /\ call.P_left = call.P_right
    /\ call.radius > 0
    /\ ret.ok /\ ret.accepted
    /\ ret.element = Raise("ValueError")

\* C28: every manual triangle appended through add-triangle mode references
\* three pairwise distinct point indices, whatever the click sequence.
PairwiseDistinct(t) == t[1] # t[2] /\ t[2] # t[3] /\ t[1] # t[3]

C28_DistinctTriangleIndices ==
    \A t \in 1..Len(triangles) : PairwiseDistinct(triangles[t])

\* the part of C28 that the code keeps: neighbouring clicks differ
C28_NeighboursDiffer ==
    \A t \in 1..Len(triangles) :
        triangles[t][1] # triangles[t][2] /\ triangles[t][2] # triangles[t][3]

\* the clicks a, b, a: the third click does not repeat the second and the
\* triangle (a, b, a) is appended
C28_TwoPointTriangle ==
    /\ call.op = "mouse_press" /\ call.add_mode
    /\ Len(triangles) = 1
    /\ triangles[1][1] = triangles[1][3]
    /\ ~add_triangle_mode

\* C29: the three-click protocol of add-triangle mode. After
\* start_add_triangle_mode the pending list is empty; a left click that hits
\* no point or repeats the point clicked immediately before leaves the
\* pending list and the mode as they are; the third accepted click appends
\* the triangle unless one with the same vertex set exists, clears the
\* pending list, leaves the mode and invalidates the cache; while the mode
\* is active a left click never starts panning, deletes a triangle or
\* toggles a mandatory point.
ClickInAddMode == call'.op = "mouse_press" /\ add_triangle_mode

Rejected(hit) ==
    \/ hit = <<>>
    \/ add_triangle_clicks # <<>> /\ hit[1] = add_triangle_clicks[Len(add_triangle_clicks)]

HasVertexSet(tris, tri) ==
    \E t \in 1..Len(tris) : {tris[t][1], tris[t][2], tris[t][3]} = {tri[1], tri[2], tri[3]}

C29_Step ==
    /\ call'.op = "start_add_triangle_mode" =>
          (add_triangle_mode' /\ add_triangle_clicks' = <<>>)
    /\ (ClickInAddMode /\ Rejected(call'.hit)) =>
          UNCHANGED <<add_triangle_clicks, add_triangle_mode, triangles>>
    /\ (ClickInAddMode /\ ~Rejected(call'.hit) /\ Len(add_triangle_clicks) < 2) =>
          /\ add_triangle_clicks' = Append(add_triangle_clicks, call'.hit[1])
          /\ UNCHANGED <<add_triangle_mode, triangles>>
    /\ (ClickInAddMode /\ ~Rejected(call'.hit) /\ Len(add_triangle_clicks) = 2) =>
          LET tri == Append(add_triangle_clicks, call'.hit[1])
          IN /\ triangles' = IF HasVertexSet(triangles, tri) THEN triangles
                              ELSE Append(triangles, tri)
             /\ add_triangle_clicks' = <<>>
             /\ ~add_triangle_mode'
             /\ cached_triangles' = <<>>
    /\ ClickInAddMode =>
          /\ panning' = panning
          /\ selected_mandatory_ids' = selected_mandatory_ids
          /\ Len(triangles') >= Len(triangles)
          /\ SubSeq(triangles', 1, Len(triangles)) = triangles

C29_AddTriangleProtocol == [][C29_Step]_vars

\* the third accepted click, made while delete mode was on as well: the
\* triangle is in the list, the pending list is empty, the mode is left and
\* nothing is cached
C29_Witness ==
    /\ call.op = "mouse_press" /\ call.add_mode /\ call.hit # <<>>
    /\ ~add_triangle_mode
    /\ add_triangle_clicks = <<>>
    /\ Len(triangles) = 1 /\ PairwiseDistinct(triangles[1])
    /\ cached_triangles = <<>>
    /\ delete_triangle_mode
    /\ ~panning

\* C24: the manual triangles are an independent list of index triples that
\* recomputing the automatic mesh never changes; compute_triangulation
\* returns the automatic triangles followed by one triangle per manual
\* triple whose three indices are valid now; removing a point neither
\* removes nor rewrites a manual triple.
ValidTriple(t) == \A c \in 1..3 : ShapeAt(shapes, t[c]) # <<>>

VertexOf(i) == LET v == ShapeAt(shapes, i)[1] IN <<v.pos[1], v.pos[2], v.data.z>>

RECURSIVE ValidManual(_)
ValidManual(tris) ==
    IF tris = <<>> THEN <<>>
    ELSE (IF ValidTriple(Head(tris))
          THEN <<<<VertexOf(Head(tris)[1]), VertexOf(Head(tris)[2]), VertexOf(Head(tris)[3])>>>>
          ELSE <<>>) \o ValidManual(Tail(tris))

AutomaticMesh ==
    IF Len(PointsOf(shapes)) < 3 THEN <<>>
    ELSE AutoTriangles(PointsOf(shapes), has_delaunay)

C24_Step ==
    /\ call'.op \in {"compute_triangulation", "remove_point_by_id"} =>
          triangles' = triangles
    /\ call'.op = "compute_triangulation" =>
          ret' = AutomaticMesh \o ValidManual(triangles)

C24_ManualTriangles == [][C24_Step]_vars

\* the part of C24 that the code keeps: the list of triples is untouched,
\* and a mesh that is built rather than taken from the cache has the form
C24_TriplesUntouched ==
    [][/\ call'.op \in {"compute_triangulation", "remove_point_by_id"} =>
             triangles' = triangles
       /\ (call'.op = "compute_triangulation" /\ ~call'.hit) =>
             ret' = AutomaticMesh \o ValidManual(triangles)]_vars

\* C27: after any sequence of surface operations, load_surface and
\* create_surface of the main window included, compute_triangulation returns
\* the mesh that a recomputation from the current points and the current
\* manual triangles gives; a cached mesh with manual triangles that are no
\* longer in the list is never returned.
C27_MeshIsCurrent ==
    call.op = "compute_triangulation" => ret = FreshMesh

\* a surface with a manual triangle was loaded and meshed, then a file with
\* the same points and no manual triangle: the cached mesh is returned with
\* the manual triangle of the first file
C27_StaleMesh ==
    /\ call.op = "compute_triangulation" /\ call.hit
    /\ call.after = "load_surface"
    /\ triangles = <<>>
    /\ Len(ret) > Len(FreshMesh)

====
